---- MODULE Spec2Model ----
(***************************************************************************)
(* Enhanced creature index of foundry-mcp-bridge: the persisted index      *)
(* (PersistentCreatureIndex), its validity check, its builders, the        *)
(* invalidation hooks and the structured query with its free-text          *)
(* fallback (FoundryDataAccess).                                           *)
(*                                                                         *)
(* Strings are tuples of one-character strings, so that trim, split,       *)
(* length, slice and substring tests are computed and not assumed.         *)
(***************************************************************************)
EXTENDS Integers, Sequences, FiniteSets, TLC

(***************************************************************************)
(* Bounds of the model.                                                    *)
(***************************************************************************)
MaxDocs == 1          \* documents a pack may hold
MaxTime == 1          \* distinct values Date.now() may return
MaxCalls == 3         \* calls of the public operations in one behaviour
MaxEvents == 2        \* changes of the world's packs in one behaviour
RaceEvents == 1       \* changes of the world's packs while two callers race
QueryCalls == 2       \* structured queries put to one persisted index
SearchCalls == 2      \* free-text searches in one behaviour
InsertionRun == 32    \* elements up to which a sort proceeds by insertion alone
MaxStarts == 2        \* calls of startService by one caller
MaxStatusPolls == 2   \* status polls of one start before its time is up

(***************************************************************************)
(* Strings.                                                                *)
(***************************************************************************)
Dash == <<"-">>
Space == <<" ">>

RECURSIVE Concat(_)
Concat(ss) == IF ss = <<>> THEN <<>> ELSE Head(ss) \o Concat(Tail(ss))

Take(s, n) == IF Len(s) <= n THEN s ELSE SubSeq(s, 1, n)

Digits == << <<"0">>, <<"1">>, <<"2">>, <<"3">>, <<"4">>, <<"5">>, <<"6">>, <<"7">>, <<"8">>, <<"9">> >>

RECURSIVE NumToString(_)
NumToString(n) == IF n < 10 THEN Digits[n + 1]
                  ELSE NumToString(n \div 10) \o Digits[(n % 10) + 1]

LowerLetters == <<"a", "b", "c", "d", "e", "f", "g", "h", "i", "j", "k", "l", "m", "n", "o", "p", "q", "r", "s", "t", "u", "v", "w", "x", "y", "z">>
UpperLetters == <<"A", "B", "C", "D", "E", "F", "G", "H", "I", "J", "K", "L", "M", "N", "O", "P", "Q", "R", "S", "T", "U", "V", "W", "X", "Y", "Z">>

LowerChar(c) == IF \E k \in 1..Len(UpperLetters) : UpperLetters[k] = c
                THEN LowerLetters[CHOOSE k \in 1..Len(UpperLetters) : UpperLetters[k] = c]
                ELSE c

UpperChar(c) == IF \E k \in 1..Len(LowerLetters) : LowerLetters[k] = c
                THEN UpperLetters[CHOOSE k \in 1..Len(LowerLetters) : LowerLetters[k] = c]
                ELSE c

toLowerCase(s) == [k \in 1..Len(s) |-> LowerChar(s[k])]

RECURSIVE TrimStart(_)
TrimStart(s) == IF s # <<>> /\ Head(s) = " " THEN TrimStart(Tail(s)) ELSE s

RECURSIVE TrimEnd(_)
TrimEnd(s) == IF s # <<>> /\ s[Len(s)] = " " THEN TrimEnd(SubSeq(s, 1, Len(s) - 1)) ELSE s

trim(s) == TrimEnd(TrimStart(s))

\* s.split(' '): the pieces between single blanks, empty pieces included
RECURSIVE SplitAcc(_, _)
SplitAcc(s, cur) == IF s = <<>> THEN <<cur>>
                    ELSE IF Head(s) = " " THEN <<cur>> \o SplitAcc(Tail(s), <<>>)
                    ELSE SplitAcc(Tail(s), Append(cur, Head(s)))

split(s) == SplitAcc(s, <<>>)

\* terms.join(' ')
RECURSIVE join(_)
join(ts) == IF ts = <<>> THEN <<>>
            ELSE IF Len(ts) = 1 THEN ts[1]
            ELSE ts[1] \o Space \o join(Tail(ts))

\* s.includes(t)
includes(s, t) == \E k \in 0..(Len(s) - Len(t)) : SubSeq(s, k + 1, k + Len(t)) = t

SelectIdx(s, Test(_)) == SelectSeq([k \in 1..Len(s) |-> k], Test)

(***************************************************************************)
(* Insertion-ordered Map (JavaScript Map): the keys in insertion order and *)
(* the value of each key.                                                  *)
(***************************************************************************)
EmptyMap == [order |-> <<>>, at |-> <<>>]

MapHas(m, k) == \E j \in 1..Len(m.order) : m.order[j] = k

MapIdx(m, k) == CHOOSE j \in 1..Len(m.order) : m.order[j] = k

MapGet(m, k) == m.at[MapIdx(m, k)]

MapSet(m, k, v) == IF MapHas(m, k)
                   THEN [m EXCEPT !.at[MapIdx(m, k)] = v]
                   ELSE [order |-> Append(m.order, k), at |-> Append(m.at, v)]

\* Array.from(map.entries())
MapEntries(m) == [j \in 1..Len(m.order) |-> <<m.order[j], m.at[j]>>]

\* new Map(pairs)
RECURSIVE MapFromEntries(_)
MapFromEntries(ps) == IF ps = <<>> THEN EmptyMap
                      ELSE LET init == MapFromEntries(SubSeq(ps, 1, Len(ps) - 1))
                               last == ps[Len(ps)]
                           IN  MapSet(init, last[1], last[2])

(***************************************************************************)
(* The host's world: compendium packs and their documents.                 *)
(***************************************************************************)
INDEX_VERSION == <<"1", ".", "0", ".", "0">>
OLD_VERSION == <<"0", ".", "9", ".", "0">>

Dnd5e == "dnd5e"
Pf2e == "pf2e"
OtherSystem == "other"
Systems == {Dnd5e, Pf2e, OtherSystem}

\* pack ids: a short one, and one longer than the 12 characters a checksum covers
IdA == <<"a", "1">>
IdB == <<"w", "o", "r", "l", "d", ".", "m", "o", "n", "s", "t", "e", "r">>
IdItem == <<"i", "1">>
ActorPackIds == {IdA, IdB}
PackIds == ActorPackIds \cup {IdItem}
PackOrder == <<IdA, IdB, IdItem>>

PackTypeOf(id) == IF id \in ActorPackIds THEN "Actor" ELSE "Item"

LabelM == <<"M">>
LabelN == <<"N">>

\* raw documents: the fields of doc and doc.system the extraction reads. cr is
\* system.details.cr, a number (crNum) or, when crStr is not empty, a string;
\* an empty string stands for a missing field; throws marks a document whose
\* system data raises when it is read
Goblin == [_id |-> "d1", name |-> <<"G", "o", "b", "l", "i", "n">>, type |-> "npc",
           crStr |-> <<"1", "/", "4">>, crNum |-> 0,
           ctype |-> <<"H", "u", "m", "a", "n", "o", "i", "d">>, size |-> <<"s", "m">>, hp |-> 7, ac |-> 15,
           spells |-> FALSE, legendary |-> FALSE, level |-> 1,
           traits |-> <<<<"G", "o", "b", "l", "i", "n">>, <<"H", "u", "m", "a", "n", "o", "i", "d">>>>, rarity |-> <<>>,
           throws |-> FALSE]
Wyrm == [_id |-> "d2", name |-> <<"A", "d", "u", "l", "t", " ", "W", "y", "r", "m">>, type |-> "character",
         crStr |-> <<>>, crNum |-> 2,
         ctype |-> <<"d", "r", "a", "g", "o", "n">>, size |-> <<"l", "g">>, hp |-> 0, ac |-> 0,
         spells |-> TRUE, legendary |-> TRUE, level |-> 2,
         traits |-> <<<<"d", "r", "a", "g", "o", "n">>>>, rarity |-> <<"r", "a", "r", "e">>,
         throws |-> FALSE]
Broken == [_id |-> "d3", name |-> <<"m", "o", "n", "s", "t", "e", "r">>, type |-> "npc",
           crStr |-> <<>>, crNum |-> 0,
           ctype |-> <<>>, size |-> <<>>, hp |-> 0, ac |-> 0,
           spells |-> FALSE, legendary |-> FALSE, level |-> 0,
           traits |-> <<>>, rarity |-> <<>>,
           throws |-> TRUE]
Chest == [_id |-> "d1", name |-> <<"C", "h", "e", "s", "t">>, type |-> "loot",
          crStr |-> <<>>, crNum |-> 0,
          ctype |-> <<>>, size |-> <<>>, hp |-> 0, ac |-> 0,
          spells |-> FALSE, legendary |-> FALSE, level |-> 0,
          traits |-> <<>>, rarity |-> <<>>,
          throws |-> FALSE]
DocCatalogue == {Goblin, Wyrm, Broken, Chest}

RecognizedKind(doc) == doc.type = "npc" \/ doc.type = "character"

\* a pack object; it outlives its removal from game.packs (exists = FALSE)
NewPack(id, label) == [exists |-> TRUE, id |-> id, label |-> label, type |-> PackTypeOf(id),
                       lastModified |-> 0, indexed |-> FALSE, docs |-> <<>>]

\* pack.index?.size || 0
IndexSize(pack) == IF pack.indexed THEN Len(pack.docs) ELSE 0

\* Array.from(game.packs.values()).filter(pack => pack.metadata.type === 'Actor')
ActorPacksOf(ps) == SelectSeq(PackOrder, LAMBDA id : ps[id].exists /\ ps[id].type = "Actor")

(***************************************************************************)
(* Fingerprints.                                                           *)
(***************************************************************************)
\* btoa(data).slice(0, 16): sixteen base64 characters encode the first
\* twelve characters of data, and base64 is one-to-one
ChecksumChars == 12

generatePackChecksum(pack) ==
    Take(Concat(<<pack.id, Dash, pack.label, Dash, NumToString(IndexSize(pack))>>),
         ChecksumChars)

generatePackFingerprint(pack, now) ==
    [packId |-> pack.id,
     packLabel |-> pack.label,
     lastModified |-> IF pack.lastModified # 0 THEN pack.lastModified ELSE now,
     documentCount |-> IndexSize(pack),
     checksum |-> generatePackChecksum(pack)]

fingerprintsMatchByPackId(current, saved) ==
    current.packId = saved.packId

\* a comparison of whole fingerprints, the time of the last change included
fingerprintsMatchWithTime(current, saved) == current = saved

fingerprintsMatch(current, saved) ==
    /\ current.documentCount = saved.documentCount
    /\ current.checksum = saved.checksum

(***************************************************************************)
(* Validity of a loaded index.                                             *)
(***************************************************************************)
isIndexValidNoOrphanCheck(existingIndex, ps, currentSystem, now) ==
    /\ existingIndex.metadata.version = INDEX_VERSION
    /\ existingIndex.metadata.gameSystem = currentSystem
    /\ \A k \in 1..Len(ActorPacksOf(ps)) :
          LET pack == ps[ActorPacksOf(ps)[k]]
          IN  /\ MapHas(existingIndex.metadata.packFingerprints, pack.id)
              /\ fingerprintsMatch(generatePackFingerprint(pack, now),
                                   MapGet(existingIndex.metadata.packFingerprints, pack.id))

isIndexValid(existingIndex, ps, currentSystem, now) ==
    IF existingIndex.metadata.version # INDEX_VERSION THEN FALSE
    ELSE IF existingIndex.metadata.gameSystem # currentSystem THEN FALSE
    ELSE IF \E k \in 1..Len(ActorPacksOf(ps)) :
               LET pack == ps[ActorPacksOf(ps)[k]]
                   fps == existingIndex.metadata.packFingerprints
               IN  \/ ~MapHas(fps, pack.id)
                   \/ ~fingerprintsMatch(generatePackFingerprint(pack, now),
                                         MapGet(fps, pack.id))
         THEN FALSE
    ELSE IF \E j \in 1..Len(existingIndex.metadata.packFingerprints.order) :
               ~ps[existingIndex.metadata.packFingerprints.order[j]].exists
         THEN FALSE
    ELSE TRUE

(***************************************************************************)
(* Persistence: the JSON artifact holds the fingerprint Map as an array of *)
(* [key, value] pairs.                                                     *)
(***************************************************************************)
\* the world directory holds the artifact (a list of its one content) or not
NoFile == <<>>
FileOf(json) == <<json>>
ContentOf(file) == file[1]

\* a saveData whose fingerprint map is written as JSON writes a Map: empty
SerializeMapAsObject(index) ==
    [metadata |-> [index.metadata EXCEPT !.packFingerprints = <<>>],
     creatures |-> index.creatures]

\* the saveData of savePersistedIndex
Serialize(index) ==
    [metadata |-> [index.metadata EXCEPT !.packFingerprints = MapEntries(@)],
     creatures |-> index.creatures]

\* the conversion of loadPersistedIndex
Deserialize(rawData) ==
    [metadata |-> [rawData.metadata EXCEPT !.packFingerprints = MapFromEntries(@)],
     creatures |-> rawData.creatures]

(***************************************************************************)
(* Extraction of one profile per document.  A challenge rating is kept in  *)
(* eighths (PowerScale), so that 1/8, 1/4 and 1/2 are integers.            *)
(***************************************************************************)
PowerScale == 8

Unknown == <<"u", "n", "k", "n", "o", "w", "n">>
Medium == <<"m", "e", "d", "i", "u", "m">>
Common == <<"c", "o", "m", "m", "o", "n">>
ExtractionFailed == <<"D", "a", "t", "a", " ", "e", "x", "t", "r", "a", "c", "t", "i", "o", "n", " ", "f", "a", "i", "l", "e", "d">>

DigitValue(c) == CHOOSE d \in 0..9 : Digits[d + 1] = <<c>>
IsDigit(c) == \E d \in 0..9 : Digits[d + 1] = <<c>>

\* parseFloat(s) || 0 for a string of decimal digits; any other string is NaN
RECURSIVE ParseDigits(_, _)
ParseDigits(s, acc) == IF s = <<>> \/ ~IsDigit(Head(s)) THEN acc
                       ELSE ParseDigits(Tail(s), 10 * acc + DigitValue(Head(s)))

parseFloat(s) == IF s = <<>> \/ ~IsDigit(Head(s)) THEN 0 ELSE ParseDigits(s, 0)

\* the normalisation of system.details.cr
ChallengeRatingOf(doc) ==
    IF doc.crStr # <<>>
    THEN IF doc.crStr = <<"1", "/", "8">> THEN 1
         ELSE IF doc.crStr = <<"1", "/", "4">> THEN 2
         ELSE IF doc.crStr = <<"1", "/", "2">> THEN 4
         ELSE PowerScale * parseFloat(doc.crStr)
    ELSE PowerScale * doc.crNum

DnD5ePlaceholder(doc, pack) ==
    [id |-> doc._id, name |-> doc.name, type |-> doc.type,
     pack |-> pack.id, packLabel |-> pack.label,
     challengeRating |-> 0, creatureType |-> Unknown, size |-> Medium,
     hitPoints |-> 1, armorClass |-> 10, hasSpells |-> FALSE,
     hasLegendaryActions |-> FALSE, description |-> ExtractionFailed]

DnD5eProfile(doc, pack) ==
    [id |-> doc._id, name |-> doc.name, type |-> doc.type,
     pack |-> pack.id, packLabel |-> pack.label,
     challengeRating |-> ChallengeRatingOf(doc),
     creatureType |-> toLowerCase(IF doc.ctype = <<>> THEN Unknown ELSE doc.ctype),
     size |-> toLowerCase(IF doc.size = <<>> THEN Medium ELSE doc.size),
     hitPoints |-> doc.hp,
     armorClass |-> IF doc.ac = 0 THEN 10 ELSE doc.ac,
     hasSpells |-> doc.spells,
     hasLegendaryActions |-> doc.legendary,
     description |-> <<>>]

\* the result's creature is a list of one profile, or empty for null
extractDnD5eCreatureDataDropping(doc, pack) ==
    IF doc.throws
    THEN [creature |-> <<>>, errors |-> 1]
    ELSE [creature |-> <<DnD5eProfile(doc, pack)>>, errors |-> 0]

extractDnD5eCreatureData(doc, pack) ==
    IF doc.throws
    THEN [creature |-> <<DnD5ePlaceholder(doc, pack)>>, errors |-> 1]
    ELSE [creature |-> <<DnD5eProfile(doc, pack)>>, errors |-> 0]

creatureTraits == <<<<"a", "b", "e", "r", "r", "a", "t", "i", "o", "n">>, <<"a", "n", "i", "m", "a", "l">>, <<"b", "e", "a", "s", "t">>, <<"c", "e", "l", "e", "s", "t", "i", "a", "l">>, <<"c", "o", "n", "s", "t", "r", "u", "c", "t">>, <<"d", "r", "a", "g", "o", "n">>, <<"e", "l", "e", "m", "e", "n", "t", "a", "l">>, <<"f", "e", "y">>, <<"f", "i", "e", "n", "d">>, <<"f", "u", "n", "g", "u", "s">>, <<"h", "u", "m", "a", "n", "o", "i", "d">>, <<"m", "o", "n", "i", "t", "o", "r">>, <<"o", "o", "z", "e">>, <<"p", "l", "a", "n", "t">>, <<"u", "n", "d", "e", "a", "d">>>>

InSeq(x, s) == \E k \in 1..Len(s) : s[k] = x

\* traits.find(t => creatureTraits.includes(t.toLowerCase()))?.toLowerCase() || 'unknown'
PF2eCreatureTypeOf(traits) ==
    LET hits == SelectSeq(traits, LAMBDA t : InSeq(toLowerCase(t), creatureTraits))
    IN  IF hits = <<>> THEN Unknown ELSE toLowerCase(hits[1])

\* sizeMap[size.toLowerCase()] || 'medium'
PF2eSizeOf(size) ==
    LET sz == toLowerCase(IF size = <<>> THEN <<"m", "e", "d">> ELSE size)
    IN  IF sz = <<"t", "i", "n", "y">> THEN <<"t", "i", "n", "y">>
        ELSE IF sz = <<"s", "m">> THEN <<"s", "m", "a", "l", "l">>
        ELSE IF sz = <<"m", "e", "d">> THEN Medium
        ELSE IF sz = <<"l", "g">> THEN <<"l", "a", "r", "g", "e">>
        ELSE IF sz = <<"h", "u", "g", "e">> THEN <<"h", "u", "g", "e">>
        ELSE IF sz = <<"g", "r", "g">> THEN <<"g", "a", "r", "g", "a", "n", "t", "u", "a", "n">>
        ELSE Medium

PF2ePlaceholder(doc, pack) ==
    [id |-> doc._id, name |-> doc.name, type |-> doc.type,
     pack |-> pack.id, packLabel |-> pack.label,
     level |-> 0, traits |-> <<>>, creatureType |-> Unknown, rarity |-> Common,
     size |-> Medium, hitPoints |-> 1, armorClass |-> 10, hasSpells |-> FALSE,
     description |-> ExtractionFailed]

extractPF2eCreatureData(doc, pack) ==
    IF doc.throws
    THEN [creature |-> <<PF2ePlaceholder(doc, pack)>>, errors |-> 1]
    ELSE [creature |->
            <<[id |-> doc._id, name |-> doc.name, type |-> doc.type,
               pack |-> pack.id, packLabel |-> pack.label,
               level |-> doc.level,
               traits |-> doc.traits,
               creatureType |-> PF2eCreatureTypeOf(doc.traits),
               rarity |-> IF doc.rarity = <<>> THEN Common ELSE doc.rarity,
               size |-> PF2eSizeOf(doc.size),
               hitPoints |-> doc.hp,
               armorClass |-> IF doc.ac = 0 THEN 10 ELSE doc.ac,
               hasSpells |-> doc.spells,
               description |-> <<>>]>>,
          errors |-> 0]

\* what pack.getDocuments() resolves to: the documents, or a failure
LoadFailed == "load failed"

\* a loop that gives up the pack at the first document whose extraction fails
RECURSIVE ExtractLoopAborting(_, _, _, _)
ExtractLoopAborting(docs, pack, system, acc) ==
    IF docs = <<>> THEN acc
    ELSE LET doc == Head(docs)
             r == IF system = Pf2e THEN extractPF2eCreatureData(doc, pack)
                  ELSE extractDnD5eCreatureData(doc, pack)
         IN  IF ~RecognizedKind(doc) THEN ExtractLoopAborting(Tail(docs), pack, system, acc)
             ELSE IF r.errors > 0 THEN [acc EXCEPT !.errors = @ + 1]
             ELSE ExtractLoopAborting(Tail(docs), pack, system,
                                      [creatures |-> acc.creatures \o r.creature,
                                       errors |-> acc.errors])

\* the loop of extract...DataFromPack over the loaded documents: a document whose
\* type cannot be read ("unreadable") raises and is counted, one of another kind
\* is skipped
RECURSIVE ExtractLoop(_, _, _, _)
ExtractLoop(docs, pack, system, acc) ==
    IF docs = <<>> THEN acc
    ELSE LET doc == Head(docs)
             r == IF system = Pf2e THEN extractPF2eCreatureData(doc, pack)
                  ELSE extractDnD5eCreatureData(doc, pack)
             next == IF doc.type = "unreadable"
                     THEN [acc EXCEPT !.errors = @ + 1]
                     ELSE IF ~RecognizedKind(doc) THEN acc
                     ELSE [creatures |-> acc.creatures \o r.creature,
                           errors |-> acc.errors + r.errors]
         IN  ExtractLoop(Tail(docs), pack, system, next)

ExtractDataFromPack(pack, loaded, system) ==
    IF loaded = LoadFailed
    THEN [creatures |-> <<>>, errors |-> 1]
    ELSE ExtractLoop(pack.docs, pack, system, [creatures |-> <<>>, errors |-> 0])

(***************************************************************************)
(* Criteria of the structured query.  A criteria object is a record in     *)
(* which an unspecified field is "unset" (booleans), the empty string      *)
(* (strings), the empty list (traits), kind "none" (power) or 0 (limit).   *)
(***************************************************************************)
NoPower == [kind |-> "none", value |-> 0, hasMin |-> FALSE, min |-> 0, hasMax |-> FALSE, max |-> 0]
ExactPower(v) == [NoPower EXCEPT !.kind = "exact", !.value = v]

NoCriteria == [challengeRating |-> NoPower, level |-> NoPower, creatureType |-> <<>>,
               size |-> <<>>, rarity |-> <<>>, traits |-> <<>>, hasSpells |-> "unset",
               hasLegendaryActions |-> "unset", limit |-> 0]

BoolIs(flag, b) == flag = (IF b THEN "true" ELSE "false")

\* the power filter of passesDnD5eCriteria: a missing bound does not filter
PassesChallengeRating(cr, c) ==
    IF c.kind = "none" THEN TRUE
    ELSE IF c.kind = "exact" THEN cr = c.value
    ELSE /\ ~(c.hasMin /\ cr < c.min)
         /\ ~(c.hasMax /\ cr > c.max)

\* the power filter of passesPF2eCriteria: const { min = -1, max = 25 } = criteria.level
PassesLevel(level, c) ==
    IF c.kind = "none" THEN TRUE
    ELSE IF c.kind = "exact" THEN level = c.value
    ELSE LET min == IF c.hasMin THEN c.min ELSE -1
             max == IF c.hasMax THEN c.max ELSE 25
         IN  ~(level < min \/ level > max)

\* the filter of the first dialect without its last test
passesDnD5eCriteriaWithoutLegendary(creature, criteria) ==
    /\ PassesChallengeRating(creature.challengeRating, criteria.challengeRating)
    /\ criteria.creatureType # <<>> =>
          toLowerCase(creature.creatureType) = toLowerCase(criteria.creatureType)
    /\ criteria.size # <<>> => toLowerCase(creature.size) = toLowerCase(criteria.size)
    /\ criteria.hasSpells # "unset" => BoolIs(criteria.hasSpells, creature.hasSpells)

passesDnD5eCriteria(creature, criteria) ==
    /\ PassesChallengeRating(creature.challengeRating, criteria.challengeRating)
    /\ criteria.creatureType # <<>> =>
          toLowerCase(creature.creatureType) = toLowerCase(criteria.creatureType)
    /\ criteria.size # <<>> => toLowerCase(creature.size) = toLowerCase(criteria.size)
    /\ criteria.hasSpells # "unset" => BoolIs(criteria.hasSpells, creature.hasSpells)
    /\ criteria.hasLegendaryActions # "unset" =>
          BoolIs(criteria.hasLegendaryActions, creature.hasLegendaryActions)

passesPF2eCriteria(creature, criteria) ==
    /\ PassesLevel(creature.level, criteria.level)
    /\ \A k \in 1..Len(criteria.traits) :
          \E j \in 1..Len(creature.traits) :
             toLowerCase(creature.traits[j]) = toLowerCase(criteria.traits[k])
    /\ criteria.rarity # <<>> => creature.rarity = criteria.rarity
    /\ criteria.creatureType # <<>> =>
          toLowerCase(creature.creatureType) = toLowerCase(criteria.creatureType)
    /\ criteria.size # <<>> => toLowerCase(creature.size) = toLowerCase(criteria.size)
    /\ criteria.hasSpells # "unset" => BoolIs(criteria.hasSpells, creature.hasSpells)

\* 'level' in creature
IsPF2e(creature) == "level" \in DOMAIN creature

passesEnhancedCriteria(creature, criteria) ==
    IF IsPF2e(creature) THEN passesPF2eCriteria(creature, criteria)
    ELSE passesDnD5eCriteria(creature, criteria)

PowerOf(creature) == IF IsPF2e(creature) THEN creature.level ELSE creature.challengeRating

(***************************************************************************)
(* String order (localeCompare): letters in alphabetical order whatever    *)
(* their case, a lower-case letter before its capital, other characters    *)
(* before letters.                                                         *)
(***************************************************************************)
CharRank(c) == LET l == LowerChar(c)
               IN  IF \E k \in 1..Len(LowerLetters) : LowerLetters[k] = l
                   THEN CHOOSE k \in 1..Len(LowerLetters) : LowerLetters[k] = l
                   ELSE 0

RECURSIVE BaseCompare(_, _)
BaseCompare(a, b) ==
    IF a = <<>> /\ b = <<>> THEN 0
    ELSE IF a = <<>> THEN -1
    ELSE IF b = <<>> THEN 1
    ELSE IF CharRank(Head(a)) < CharRank(Head(b)) THEN -1
    ELSE IF CharRank(Head(a)) > CharRank(Head(b)) THEN 1
    ELSE BaseCompare(Tail(a), Tail(b))

RECURSIVE CaseCompare(_, _)
CaseCompare(a, b) ==
    IF a = <<>> \/ b = <<>> THEN 0
    ELSE IF Head(a) = Head(b) THEN CaseCompare(Tail(a), Tail(b))
    ELSE IF Head(a) = LowerChar(Head(a)) THEN -1 ELSE 1

localeCompare(a, b) == IF BaseCompare(a, b) # 0 THEN BaseCompare(a, b) ELSE CaseCompare(a, b)

\* a comparison by power descending, then name
CreatureCompareDescending(a, b) ==
    IF PowerOf(a) # PowerOf(b) THEN PowerOf(b) - PowerOf(a)
    ELSE localeCompare(a.name, b.name)

\* a comparison by power alone
CreatureCompareByPower(a, b) == PowerOf(a) - PowerOf(b)

\* the comparison of listCreaturesByCriteria: power, then name
CreatureCompare(a, b) ==
    IF PowerOf(a) # PowerOf(b) THEN PowerOf(a) - PowerOf(b)
    ELSE localeCompare(a.name, b.name)

\* the comparison of searchCompendium without filters: an exact match of the
\* query first, then by name
ResultCompare(a, b, query) ==
    LET aExact == toLowerCase(a.name) = toLowerCase(query)
        bExact == toLowerCase(b.name) = toLowerCase(query)
    IN  IF aExact /\ ~bExact THEN -1
        ELSE IF ~aExact /\ bExact THEN 1
        ELSE localeCompare(a.name, b.name)

\* the comparison a sort is called with: "creature", or "result" with the query
Compare(kind, a, b, query) ==
    IF kind = "creature" THEN CreatureCompare(a, b) ELSE ResultCompare(a, b, query)

\* Array.prototype.sort: a stable sort, by merging. Of two sorted runs, an
\* element of the second goes before an element of the first only when it
\* compares below it
Merge(a, b, kind, query) ==
    LET la == Len(a)
        lb == Len(b)
        before == {w \in (1..la) \X (1..lb) : Compare(kind, b[w[2]], a[w[1]], query) < 0}
        posA == SubSeq([i \in 1..la |-> i + Cardinality({j \in 1..lb : <<i, j>> \in before})],
                       1, la)
        posB == SubSeq([j \in 1..lb |-> j + Cardinality({i \in 1..la : <<i, j>> \notin before})],
                       1, lb)
    IN  SubSeq([p \in 1..(la + lb) |->
                   IF \E i \in 1..la : posA[i] = p
                   THEN a[CHOOSE i \in 1..la : posA[i] = p]
                   ELSE b[CHOOSE j \in 1..lb : posB[j] = p]],
               1, la + lb)

\* insertion of an element behind the sorted ones before it
RECURSIVE InsertSorted(_, _, _, _)
InsertSorted(x, sorted, kind, query) ==
    IF sorted = <<>> THEN <<x>>
    ELSE IF Compare(kind, x, sorted[Len(sorted)], query) >= 0 THEN Append(sorted, x)
    ELSE Append(InsertSorted(x, SubSeq(sorted, 1, Len(sorted) - 1), kind, query),
                sorted[Len(sorted)])

RECURSIVE InsertionSort(_, _, _)
InsertionSort(s, kind, query) ==
    IF s = <<>> THEN <<>>
    ELSE InsertSorted(s[Len(s)], InsertionSort(SubSeq(s, 1, Len(s) - 1), kind, query),
                      kind, query)

\* short arrays are sorted by insertion, longer ones in halves that are merged
RECURSIVE SortBy(_, _, _)
SortBy(s, kind, query) ==
    IF Len(s) <= InsertionRun THEN InsertionSort(s, kind, query)
    ELSE LET half == Len(s) \div 2
         IN  Merge(SortBy(SubSeq(s, 1, half), kind, query),
                   SortBy(SubSeq(s, half + 1, Len(s)), kind, query), kind, query)

DEFAULT_LIMIT == 500

LimitOf(criteria) == IF criteria.limit = 0 THEN DEFAULT_LIMIT ELSE criteria.limit

\* filter and slice before the sort
StructuredResultSlicedFirst(enhancedCreatures, criteria) ==
    SortBy(Take(SelectSeq(enhancedCreatures, LAMBDA c : passesEnhancedCriteria(c, criteria)),
                LimitOf(criteria)),
           "creature", <<>>)

\* filter, sort and slice of listCreaturesByCriteria
StructuredResult(enhancedCreatures, criteria) ==
    Take(SortBy(SelectSeq(enhancedCreatures, LAMBDA c : passesEnhancedCriteria(c, criteria)),
                "creature", <<>>),
         LimitOf(criteria))

(***************************************************************************)
(* Free-text search over the packs' index records (searchCompendium called *)
(* without filters, as the fallback calls it).                             *)
(***************************************************************************)
SCAN_CAP == 100
FINAL_CAP == 50

\* !query || typeof query !== 'string' || query.trim().length < 2
\* a check of the length without the trim
QueryRejectedUntrimmed(query) == query = <<>> \/ Len(query) < 2

\* a check that asks for three characters
QueryRejectedBelowThree(query) == query = <<>> \/ Len(trim(query)) < 3

QueryRejected(query) == query = <<>> \/ Len(trim(query)) < 2

\* the value a caller passes for query: a string, nothing, or a number
NoQuery == [kind |-> "undefined", text |-> <<>>]
NumberQuery == [kind |-> "number", text |-> <<>>]
StringQuery(text) == [kind |-> "string", text |-> text]

\* !query || typeof query !== 'string' || query.trim().length < 2
QueryArgumentRejected(arg) == arg.kind # "string" \/ QueryRejected(arg.text)

\* cleanQuery.split(' ').filter(term => term.length > 0)
SearchTermsOf(query) == SelectSeq(split(trim(toLowerCase(query))), LAMBDA t : t # <<>>)

\* a match on any one term
NameMatchesSome(name, terms) ==
    \E k \in 1..Len(terms) : includes(toLowerCase(name), terms[k])

NameMatches(name, terms) ==
    \A k \in 1..Len(terms) : includes(toLowerCase(name), terms[k])

\* an index record with a name that holds every term
EntryMatches(entry, terms) ==
    /\ entry.name # <<>>
    /\ trim(entry.name) # <<>>
    /\ NameMatches(entry.name, terms)

\* results.push({...}) for each matching record of a pack
ResultsOf(entries, pack, terms) ==
    LET hits == SelectSeq(entries, LAMBDA entry : EntryMatches(entry, terms))
    IN  SubSeq([k \in 1..Len(hits) |->
                   [id |-> hits[k]._id, name |-> hits[k].name, type |-> hits[k].type,
                    pack |-> pack.id, packLabel |-> pack.label]],
               1, Len(hits))

\* the loop over one pack's index records with no test of the length
ScanEntriesUncapped(entries, pack, terms, results) ==
    results \o ResultsOf(entries, pack, terms)

\* the loop over one pack's index records; the length is tested after each
\* record and the loop stops once SCAN_CAP results are held
ScanEntries(entries, pack, terms, results) ==
    IF entries = <<>> THEN results
    ELSE IF Len(results) >= SCAN_CAP
    THEN results \o ResultsOf(<<Head(entries)>>, pack, terms)
    ELSE results \o Take(ResultsOf(entries, pack, terms), SCAN_CAP - Len(results))

\* the loop over the packs: ids are the packs of the requested type, failing the
\* packs whose getIndex raises; yields the results and the packs now indexed
RECURSIVE ScanPacks(_, _, _, _, _)
ScanPacks(ids, ps, failing, terms, acc) ==
    IF ids = <<>> THEN acc
    ELSE LET pack == ps[Head(ids)]
             fails == ~pack.indexed /\ Head(ids) \in failing
             found == IF fails THEN acc.results
                      ELSE ScanEntries(pack.docs, pack, terms, acc.results)
             next == [results |-> found,
                      indexed |-> IF fails THEN acc.indexed ELSE acc.indexed \cup {Head(ids)}]
         IN  IF Len(found) >= SCAN_CAP THEN next
             ELSE ScanPacks(Tail(ids), ps, failing, terms, next)

\* game.packs filtered by packType, scene packs left out
PacksOfType(ps, packType) ==
    SelectSeq(PackOrder, LAMBDA id : /\ ps[id].exists
                                     /\ ps[id].type = packType
                                     /\ ps[id].type # "Scene")

SearchScan(query, ps, failing) ==
    ScanPacks(PacksOfType(ps, "Actor"), ps, failing, SearchTermsOf(query),
              [results |-> <<>>, indexed |-> {}])

\* results.sort(...).slice(0, 50)
SearchResults(query, ps, failing) ==
    Take(SortBy(SearchScan(query, ps, failing).results, "result", query), FINAL_CAP)

\* the query fallbackBasicCreatureSearch builds from the criteria
FallbackTerms(criteria) ==
    (IF criteria.creatureType # <<>> THEN <<criteria.creatureType>> ELSE <<>>)
    \o (IF criteria.challengeRating.kind = "exact" /\ criteria.challengeRating.value # 0
        THEN IF criteria.challengeRating.value >= 15 * PowerScale
             THEN <<<<"a", "n", "c", "i", "e", "n", "t">>, <<"l", "e", "g", "e", "n", "d", "a", "r", "y">>>>
             ELSE IF criteria.challengeRating.value >= 10 * PowerScale
             THEN <<<<"a", "d", "u", "l", "t">>, <<"c", "h", "a", "m", "p", "i", "o", "n">>>>
             ELSE IF criteria.challengeRating.value >= 5 * PowerScale
             THEN <<<<"c", "a", "p", "t", "a", "i", "n">>, <<"k", "n", "i", "g", "h", "t">>>>
             ELSE <<>>
        ELSE <<>>)

FallbackQuery(criteria) ==
    IF join(FallbackTerms(criteria)) = <<>> THEN <<"m", "o", "n", "s", "t", "e", "r">>
    ELSE join(FallbackTerms(criteria))

(***************************************************************************)
(* State.                                                                  *)
(***************************************************************************)
VARIABLES
    system,           \* game.system.id
    settings,         \* enableEnhancedCreatureIndex, autoRebuildIndex
    packs,            \* the pack objects, by id
    store,            \* the artifact enhanced-creature-index.json, or NoFile
    buildInProgress,  \* the latch of PersistentCreatureIndex
    task,             \* the asynchronous calls of the public operations
    handler,          \* the asynchronous runs of invalidateIndex
    calls, events,    \* how many calls and world changes may still happen
    invalidated,      \* history: an invalidation left the artifact absent and
                      \* no build has started since
    servable,         \* history: the artifact was valid when the last tracked
                      \* event came, and has not been written or deleted since
    manager,          \* ComfyUIManager: isStarting, serviceStatus
    starter,          \* the asynchronous calls of ComfyUIManager.startService
    socketBridge,     \* foundryMCPBridge.socketBridge: connected, ws, dataChannel
    request,          \* the promises of ComfyUIManager.sendBackendRequest
    poller,           \* the asynchronous call of ComfyUIManager.pollRunPodJob
    user,             \* game.user of this client
    rollButtonProcessingStates, \* the button ids marked as being processed
    disabled,         \* the roll buttons whose property disabled is set
    click             \* the asynchronous runs of the click handler

\* the state of the creature index and of its callers
indexVars == <<system, settings, packs, store, buildInProgress, task, handler, calls, events,
               invalidated, servable>>

\* the state of the other components of the module
startVars == <<manager, starter>>
requestVars == <<socketBridge, request>>
rollVars == <<user, rollButtonProcessingStates, disabled, click>>
bridgeVars == <<startVars, requestVars, poller, rollVars>>

\* what a step of one component leaves alone
besideStart == <<indexVars, requestVars, poller, rollVars>>
besideRequest == <<indexVars, startVars, poller, rollVars>>
besidePoller == <<indexVars, startVars, requestVars, rollVars>>
besideRoll == <<indexVars, startVars, requestVars, poller, user>>

vars == <<indexVars, bridgeVars>>

Tasks == {"t1", "t2"}
Handlers == {"h1"}
Times == 1..MaxTime

NoFingerprint == [packId |-> <<>>, packLabel |-> <<>>, lastModified |-> 0,
                  documentCount |-> 0, checksum |-> <<>>]

IdleTask == [op |-> "none", pc |-> "idle", force |-> FALSE, criteria |-> NoCriteria,
             snap |-> <<>>, i |-> 0, fp |-> NoFingerprint, creatures |-> <<>>,
             fps |-> EmptyMap, errors |-> 0, check |-> "none", source |-> "none",
             cause |-> "none", error |-> "none", result |-> <<>>, fallback |-> FALSE,
             query |-> NoQuery,
             scanned |-> {},    \* history: the packs whose index records this search read
             raced |-> FALSE,   \* history: this build started while another was in flight
             loaded |-> {},     \* history: the packs whose documents this build loaded
             stale |-> FALSE]   \* history: the artifact it checked predates a tracked event

IdleHandler == [pc |-> "idle"]

InFlight(tk) == tk.pc \in {"load", "getIndex", "fingerprint", "getDocuments", "upload", "fallback",
                            "scan"}
Building(tk) == tk.pc \in {"getIndex", "fingerprint", "getDocuments", "upload"}
Free(tk) == ~InFlight(tk)

\* the criteria the model's callers pass
ShortType == <<"x">>
Dragon == <<"D", "r", "a", "g", "o", "n">>
Criterias == {NoCriteria,
              [NoCriteria EXCEPT !.creatureType = ShortType],
              [NoCriteria EXCEPT !.creatureType = Dragon, !.limit = 1],
              [NoCriteria EXCEPT !.challengeRating = ExactPower(2)]}

InitialPacks ==
    [id \in PackIds |->
        IF id = IdA THEN [NewPack(IdA, LabelM) EXCEPT !.docs = <<Goblin>>]
        ELSE IF id = IdB THEN [NewPack(IdB, LabelN) EXCEPT !.exists = FALSE, !.lastModified = 1]
        ELSE NewPack(IdItem, LabelN)]

(***************************************************************************)
(* ComfyUIManager.startService and startServiceWithProgress.               *)
(***************************************************************************)
Starters == {"s1", "s2"}

IdleStarter == [pc |-> "idle", status |-> "none", requested |-> FALSE, polls |-> 0,
                runs |-> 0,
                sent |-> 0,        \* history: start requests this call has sent
                refused |-> FALSE] \* history: this call found a start in progress

\* what the backend answers to check-comfyui-status; Rejected stands for a
\* request that times out, cannot be sent or comes back with an error
Rejected == "rejected"
StatusReplies == {"running", "already_running", "starting", "stopped", Rejected}

StartInFlight(st) == st.pc \in {"check", "status", "sleep", "final"}

\* startService returns status; its finally block has run
StartReturns(s, status, serviceStatus) ==
    /\ starter' = [starter EXCEPT ![s].pc = "returned", ![s].status = status]
    /\ manager' = [isStarting |-> FALSE, serviceStatus |-> serviceStatus]

\* requestBackendStartService().catch(() => {}): the request is sent, or the
\* promise is rejected before anything is sent
RequestStart(st, sends) ==
    [st EXCEPT !.requested = TRUE, !.sent = @ + (IF sends THEN 1 ELSE 0)]

\* the head of the loop without the serviceStartRequested test
PollStatusResending(st, sends) ==
    [RequestStart(st, sends) EXCEPT !.pc = "status"]

\* the head of the loop of startServiceWithProgress up to the await of
\* requestBackendStatus: the start request goes out if it has not yet
PollStatus(st, sends) ==
    [(IF st.requested THEN st ELSE RequestStart(st, sends)) EXCEPT !.pc = "status"]

\* startService() up to its first await
CallStartService(s) ==
    /\ ~StartInFlight(starter[s])
    /\ starter[s].runs < MaxStarts
    /\ LET st == [IdleStarter EXCEPT !.runs = starter[s].runs + 1]
       IN  IF manager.isStarting
           THEN /\ starter' = [starter EXCEPT ![s] = [st EXCEPT !.pc = "returned",
                                                                !.status = "starting",
                                                                !.refused = TRUE]]
                /\ manager' = manager
           ELSE \E connected, throws, sends \in BOOLEAN :
                   IF ~connected
                   THEN /\ starter' = [starter EXCEPT ![s] = [st EXCEPT !.pc = "check"]]
                        /\ manager' = [isStarting |-> TRUE, serviceStatus |-> "starting"]
                   ELSE IF throws
                   THEN /\ starter' = [starter EXCEPT ![s] = [st EXCEPT !.pc = "returned",
                                                                        !.status = "error"]]
                        /\ manager' = [isStarting |-> FALSE, serviceStatus |-> "error"]
                   ELSE /\ starter' = [starter EXCEPT ![s] = PollStatus(st, sends)]
                        /\ manager' = [isStarting |-> TRUE, serviceStatus |-> "starting"]
    /\ UNCHANGED besideStart

\* checkStatus() of the branch without a backend connection settles
CheckResolved(s) ==
    /\ starter[s].pc = "check"
    /\ \E reply \in StatusReplies :
          LET status == IF reply = Rejected THEN "stopped" ELSE reply
          IN  StartReturns(s, IF status = "running" THEN status ELSE "backend_unavailable",
                           status)
    /\ UNCHANGED besideStart

\* requestBackendStatus() of the loop settles
StatusResolved(s) ==
    /\ starter[s].pc = "status"
    /\ \E reply \in StatusReplies :
          IF reply \in {"running", "already_running"}
          THEN StartReturns(s, reply, reply)
          ELSE /\ starter' = [starter EXCEPT ![s].pc = "sleep"]
               /\ manager' = [manager EXCEPT !.serviceStatus =
                                                 IF reply = Rejected THEN @ ELSE reply]
    /\ UNCHANGED besideStart

\* the wait between two polls is over: the loop goes round while time is
\* left, or the final status check begins
SleepResolved(s) ==
    /\ starter[s].pc = "sleep"
    /\ \E timeLeft, sends \in BOOLEAN :
          IF timeLeft /\ starter[s].polls < MaxStatusPolls
          THEN starter' = [starter EXCEPT ![s] = PollStatus([@ EXCEPT !.polls = @ + 1], sends)]
          ELSE starter' = [starter EXCEPT ![s].pc = "final"]
    /\ UNCHANGED <<besideStart, manager>>

\* the final requestBackendStatus() after the time is up settles
FinalResolved(s) ==
    /\ starter[s].pc = "final"
    /\ \E reply \in StatusReplies, throws \in BOOLEAN :
          IF reply \in {"running", "already_running"}
          THEN StartReturns(s, reply, manager.serviceStatus)
          ELSE IF throws THEN StartReturns(s, "error", "error")
          ELSE StartReturns(s, "timeout", "timeout")
    /\ UNCHANGED besideStart

(***************************************************************************)
(* ComfyUIManager.sendBackendRequest.  A request is known by its requestId, *)
(* type-Date.now()-random, taken to differ from request to request.         *)
(***************************************************************************)
Requests == {"r1", "r2"}

Absent == "absent"

\* the objects socketBridge.ws and socketBridge.webrtc.dataChannel may hold
Sockets == {"ws1", "ws2"}
DataChannels == {"dc1"}

SocketBridges == [connected : BOOLEAN, ws : Sockets \cup {Absent},
                  dataChannel : DataChannels \cup {Absent}]

\* what a message event carries: text that JSON.parse rejects, or a message
\* with the requestId of a request or of something else
Unparsable == [parses |-> FALSE]
Messages ==
    {Unparsable} \cup [parses : {TRUE}, requestId : Requests \cup {"other"}, error : BOOLEAN]

IdleRequest == [pc |-> "idle", isResolved |-> FALSE,
                timer |-> FALSE,       \* timeoutHandle is pending
                listening |-> {},      \* the objects eventHandler is registered on
                outcome |-> "pending", \* the state of the promise
                by |-> "none",         \* history: what settled the promise
                answer |-> "none",     \* history: the requestId of the settling message
                settles |-> 0]         \* history: calls of resolve and reject

\* resolve or reject is called
Settle(rq, outcome, by) ==
    [rq EXCEPT !.pc = "settled",
               !.outcome = IF @ = "pending" THEN outcome ELSE @,
               !.by = IF @ = "none" THEN by ELSE @,
               !.settles = @ + 1]

\* cleanup(): the handler is removed from what socketBridge holds now
cleanup(rq, bridge) ==
    [rq EXCEPT !.listening =
        IF bridge.ws # Absent THEN @ \ {bridge.ws}
        ELSE IF bridge.dataChannel # Absent THEN @ \ {bridge.dataChannel}
        ELSE @]

\* eventHandler(event) of request r
eventHandler(r, rq, message, bridge) ==
    IF message.parses /\ message.requestId = r /\ ~rq.isResolved
    THEN Settle(cleanup([rq EXCEPT !.isResolved = TRUE, !.timer = FALSE,
                                   !.answer = message.requestId], bridge),
                IF message.error THEN "rejected" ELSE "resolved",
                IF message.error THEN "error" ELSE "response")
    ELSE rq

\* sendBackendRequest(type, data): the executor of the promise
SendBackendRequest(r) ==
    /\ request[r].pc = "idle"
    /\ LET rq == request[r]
           bridge == socketBridge
       IN  IF ~bridge.connected
           THEN request' = [request EXCEPT ![r] = Settle(rq, "rejected", "disconnected")]
           ELSE \E addThrows, sendThrows \in BOOLEAN :
                LET armed == [rq EXCEPT !.timer = TRUE]
                    target == IF bridge.ws # Absent THEN bridge.ws ELSE bridge.dataChannel
                    registered == [armed EXCEPT !.listening = {target}, !.pc = "pending"]
                IN  IF target = Absent \/ addThrows
                    THEN request' = [request EXCEPT ![r] =
                             Settle([armed EXCEPT !.isResolved = TRUE, !.timer = FALSE],
                                    "rejected", "register")]
                    ELSE IF sendThrows
                    THEN request' = [request EXCEPT ![r] =
                             Settle(cleanup([registered EXCEPT !.isResolved = TRUE,
                                                               !.timer = FALSE], bridge),
                                    "rejected", "send")]
                    ELSE request' = [request EXCEPT ![r] = registered]
    /\ UNCHANGED <<besideRequest, socketBridge>>

\* a message event reaches the handler of request r on an object it is
\* registered on
MessageEvent(r) ==
    /\ request[r].listening # {}
    /\ \E message \in Messages :
          request' = [request EXCEPT ![r] = eventHandler(r, @, message, socketBridge)]
    /\ UNCHANGED <<besideRequest, socketBridge>>

\* the callback of setTimeout of request r runs
TimeoutFires(r) ==
    /\ request[r].timer
    /\ request' = [request EXCEPT ![r] =
          IF @.isResolved THEN [@ EXCEPT !.timer = FALSE]
          ELSE Settle(cleanup([@ EXCEPT !.isResolved = TRUE, !.timer = FALSE], socketBridge),
                      "rejected", "timeout")]
    /\ UNCHANGED <<besideRequest, socketBridge>>

\* the connection is made, lost or made anew: socketBridge holds other objects
TransportChanged ==
    /\ \E bridge \in SocketBridges : socketBridge' = bridge
    /\ socketBridge' # socketBridge
    /\ UNCHANGED <<besideRequest, request>>

(***************************************************************************)
(* ComfyUIManager.pollRunPodJob and RunPodClient.checkStatus.              *)
(***************************************************************************)
MAX_POLLS == 60

\* what the status request to RunPod comes to: the status of the job in the
\* answer, or no usable answer (fetch throws, or the response is not OK)
RunPodStatuses == {"IN_QUEUE", "IN_PROGRESS", "COMPLETED", "FAILED", "TIMED_OUT",
                   "CANCELLED", "UNHEARD_OF"}
NoAnswer == "no answer"

\* RunPodClient.checkStatus(jobId)
checkStatus(answer) ==
    IF answer = NoAnswer THEN [success |-> FALSE, status |-> "none"]
    ELSE [success |-> TRUE,
          status |-> CASE answer = "IN_QUEUE" -> "queued"
                       [] answer = "IN_PROGRESS" -> "generating"
                       [] answer = "COMPLETED" -> "complete"
                       [] answer \in {"FAILED", "TIMED_OUT", "CANCELLED"} -> "failed"
                       [] OTHER -> "queued"]

IdlePoller == [pc |-> "idle", pollCount |-> 0,
               stopped |-> "none", \* history: why the polling ended
               answers |-> {},     \* history: what the polls before the last were told
               last |-> "none",    \* history: what the last poll was told
               handled |-> 0]      \* history: calls of handleRunPodCompletion

\* the body of the loop after the status check, taking in the loop's test: the
\* job is not told from one in progress when RunPod reports a failure
AfterCheckDeafToFailure(p, statusResult) ==
    IF ~statusResult.success THEN [p EXCEPT !.pc = "done", !.stopped = "check failed"]
    ELSE IF statusResult.status = "complete"
    THEN [p EXCEPT !.pc = "completing", !.handled = @ + 1]
    ELSE IF p.pollCount < MAX_POLLS THEN [p EXCEPT !.pc = "waiting"]
    ELSE [p EXCEPT !.pc = "done", !.stopped = "timeout"]

\* the body of the loop after the status check, taking in the loop's test
AfterCheck(p, statusResult) ==
    IF ~statusResult.success THEN [p EXCEPT !.pc = "done", !.stopped = "check failed"]
    ELSE IF statusResult.status = "complete"
    THEN [p EXCEPT !.pc = "completing", !.handled = @ + 1]
    ELSE IF statusResult.status = "failed"
    THEN [p EXCEPT !.pc = "done", !.stopped = "failed"]
    ELSE IF p.pollCount < MAX_POLLS THEN [p EXCEPT !.pc = "waiting"]
    ELSE [p EXCEPT !.pc = "done", !.stopped = "timeout"]

\* pollRunPodJob(jobId, params) up to its first await
CallPollRunPodJob ==
    /\ poller.pc = "idle"
    /\ \E configured \in BOOLEAN :
          poller' = IF configured THEN [poller EXCEPT !.pc = "waiting"]
                    ELSE [poller EXCEPT !.pc = "done", !.stopped = "no client"]
    /\ UNCHANGED besidePoller

\* the five seconds are over: the poll is counted and the status requested
WaitResolved ==
    /\ poller.pc = "waiting"
    /\ poller' = [poller EXCEPT !.pc = "checking", !.pollCount = @ + 1,
                                !.answers = IF poller.last = "none" THEN @
                                            ELSE @ \cup {poller.last}]
    /\ UNCHANGED besidePoller

\* client.checkStatus(jobId) settles
CheckStatusResolved ==
    /\ poller.pc = "checking"
    /\ \E answer \in RunPodStatuses \cup {NoAnswer} :
          poller' = AfterCheck([poller EXCEPT !.last = answer], checkStatus(answer))
    /\ UNCHANGED besidePoller

\* handleRunPodCompletion(jobId, job, params) settles
CompletionResolved ==
    /\ poller.pc = "completing"
    /\ poller' = [poller EXCEPT !.pc = "done", !.stopped = "complete"]
    /\ UNCHANGED besidePoller

(***************************************************************************)
(* The click handler of the roll buttons (attachRollButtonHandlers) and    *)
(* the processing states of the button ids.                                *)
(***************************************************************************)
Gamemaster == [id |-> "gm", isGM |-> TRUE]
Users == {Gamemaster, [id |-> "u1", isGM |-> FALSE], [id |-> "u2", isGM |-> FALSE]}

\* the roll buttons rendered on this client: e1 and e2 are two renderings of
\* the button b1, which is u1's to roll; e3 carries no button id; e4 is the
\* button b2 and names no target user
RollButtons == {"e1", "e2", "e3", "e4"}

\* button.data('button-id')
ButtonIdOf(e) == IF e \in {"e1", "e2"} THEN "b1" ELSE IF e = "e4" THEN "b2" ELSE Absent

\* button.data('target-user-id')
TargetUserIdOf(e) == IF e \in {"e1", "e2", "e3"} THEN "u1" ELSE Absent

Clicks == {"c1", "c2", "c3"}

IdleClick == [pc |-> "idle", button |-> Absent, buttonId |-> Absent,
              path |-> "none",  \* history: the way the handler ended
              rolls |-> 0]      \* history: rolls this click has evaluated

isRollButtonProcessing(states, buttonId) == buttonId \in states

setRollButtonProcessing(states, buttonId, processing) ==
    IF processing THEN states \cup {buttonId} ELSE states \ {buttonId}

canExecuteRoll(e) ==
    user.isGM \/ (TargetUserIdOf(e) # Absent /\ TargetUserIdOf(e) = user.id)

\* the roll of click c went wrong: the catch block and the finally block
RollFails(c) ==
    /\ click' = [click EXCEPT ![c].pc = "done", ![c].path = "failed"]
    /\ disabled' = disabled \ {click[c].button}
    /\ rollButtonProcessingStates' =
          setRollButtonProcessing(rollButtonProcessingStates, click[c].buttonId, FALSE)

\* the click handler up to its first await
Click(c) ==
    /\ click[c].pc = "idle"
    /\ \E e \in RollButtons, formulaThrows \in BOOLEAN :
        LET buttonId == ButtonIdOf(e)
            ends(path) == [click EXCEPT ![c] = [@ EXCEPT !.pc = "done", !.button = e,
                                                         !.buttonId = buttonId,
                                                         !.path = path]]
        IN  IF e \in disabled
            THEN /\ click' = ends("disabled")
                 /\ UNCHANGED <<disabled, rollButtonProcessingStates>>
            ELSE IF buttonId # Absent
                    /\ isRollButtonProcessing(rollButtonProcessingStates, buttonId)
            THEN /\ click' = ends("processing")
                 /\ disabled' = disabled \cup {e}
                 /\ UNCHANGED rollButtonProcessingStates
            ELSE IF buttonId = Absent
            THEN /\ click' = ends("missing id")
                 /\ UNCHANGED <<disabled, rollButtonProcessingStates>>
            ELSE IF ~canExecuteRoll(e)
            THEN /\ click' = ends("denied")
                 /\ disabled' = disabled \cup {e}
                 /\ rollButtonProcessingStates' =
                       setRollButtonProcessing(rollButtonProcessingStates, buttonId, TRUE)
            ELSE IF formulaThrows
            THEN /\ click' = ends("failed")
                 /\ UNCHANGED <<disabled, rollButtonProcessingStates>>
            ELSE /\ click' = [click EXCEPT ![c] = [@ EXCEPT !.pc = "evaluate", !.button = e,
                                                            !.buttonId = buttonId,
                                                            !.rolls = @ + 1]]
                 /\ disabled' = disabled \cup {e}
                 /\ rollButtonProcessingStates' =
                       setRollButtonProcessing(rollButtonProcessingStates, buttonId, TRUE)
    /\ UNCHANGED besideRoll

\* roll.evaluate() settles
EvaluateResolved(c) ==
    /\ click[c].pc = "evaluate"
    /\ \E throws \in BOOLEAN :
          IF throws THEN RollFails(c)
          ELSE /\ click' = [click EXCEPT ![c].pc = "message"]
               /\ UNCHANGED <<disabled, rollButtonProcessingStates>>
    /\ UNCHANGED besideRoll

\* roll.toMessage() settles
ToMessageResolved(c) ==
    /\ click[c].pc = "message"
    /\ \E throws \in BOOLEAN :
          IF throws THEN RollFails(c)
          ELSE /\ click' = [click EXCEPT ![c].pc = "update"]
               /\ UNCHANGED <<disabled, rollButtonProcessingStates>>
    /\ UNCHANGED besideRoll

\* updateRollButtonMessage() settles, and the finally block runs
UpdateResolved(c) ==
    /\ click[c].pc = "update"
    /\ click' = [click EXCEPT ![c].pc = "done", ![c].path = "rolled"]
    /\ rollButtonProcessingStates' =
          setRollButtonProcessing(rollButtonProcessingStates, click[c].buttonId, FALSE)
    /\ UNCHANGED <<besideRoll, disabled>>

\* the other components after construction
BridgeStart ==
    /\ manager = [isStarting |-> FALSE, serviceStatus |-> "unknown"]
    /\ starter = [s \in Starters |-> IdleStarter]
    /\ socketBridge = [connected |-> FALSE, ws |-> Absent, dataChannel |-> Absent]
    /\ request = [r \in Requests |-> IdleRequest]
    /\ poller = IdlePoller
    /\ rollButtonProcessingStates = {}
    /\ disabled = {}
    /\ click = [c \in Clicks |-> IdleClick]

\* the state after construction, but for the world, the artifact and the budgets
Start ==
    /\ BridgeStart
    /\ user = Gamemaster
    /\ system \in Systems
    /\ buildInProgress = FALSE
    /\ task = [t \in Tasks |-> IdleTask]
    /\ handler = [h \in Handlers |-> IdleHandler]
    /\ invalidated = FALSE
    /\ servable = FALSE

Init ==
    /\ Start
    /\ store = NoFile
    /\ settings \in [enabled : BOOLEAN, autoRebuild : BOOLEAN]
    /\ packs = InitialPacks
    /\ calls = MaxCalls
    /\ events = 0

(***************************************************************************)
(* How a call ends.                                                        *)
(***************************************************************************)
Finished(tk) == [tk EXCEPT !.snap = <<>>, !.i = 0, !.fp = NoFingerprint,
                           !.creatures = <<>>, !.fps = EmptyMap]

\* getEnhancedIndex or a build returns creatures; listCreaturesByCriteria goes on
\* to filter, sort and slice them
Returns(tk, creatures, source) ==
    [Finished(tk) EXCEPT !.pc = "returned", !.source = source,
                         !.result = IF tk.op = "listCreaturesByCriteria"
                                    THEN StructuredResult(creatures, tk.criteria)
                                    ELSE creatures]

\* fallbackBasicCreatureSearch up to the first await of searchCompendium
EntersFallback(tk, cause) ==
    IF QueryRejected(FallbackQuery(tk.criteria)) \/ SearchTermsOf(FallbackQuery(tk.criteria)) = <<>>
    THEN [Finished(tk) EXCEPT !.pc = "threw", !.cause = cause, !.error = "ValidationError"]
    ELSE [Finished(tk) EXCEPT !.pc = "fallback", !.cause = cause]

\* getEnhancedIndex or a build raises; listCreaturesByCriteria catches it
Raises(tk, error) ==
    IF tk.op = "listCreaturesByCriteria"
    THEN EntersFallback(tk, error)
    ELSE [Finished(tk) EXCEPT !.pc = "threw", !.cause = error, !.error = error]

(***************************************************************************)
(* The builders.                                                           *)
(***************************************************************************)
\* build...Index from the head of its loop to its next await
Advance(tk, ps, now) ==
    IF tk.i > Len(tk.snap) THEN [tk EXCEPT !.pc = "upload"]
    ELSE LET pack == ps[tk.snap[tk.i]]
         IN  IF system = Pf2e
             THEN [tk EXCEPT !.pc = "fingerprint", !.fp = generatePackFingerprint(pack, now)]
             ELSE IF ~pack.indexed THEN [tk EXCEPT !.pc = "getIndex"]
             ELSE [tk EXCEPT !.pc = "getDocuments",
                             !.fps = MapSet(@, pack.id, generatePackFingerprint(pack, now))]

LatchRejects(force) == buildInProgress /\ ~force

\* buildEnhancedIndex(force) up to its first await; sets task and the latch
buildEnhancedIndex(t, tk, force, now) ==
    IF LatchRejects(force)
    THEN /\ task' = [task EXCEPT ![t] = Raises(tk, "BuildInProgress")]
         /\ UNCHANGED <<buildInProgress, invalidated>>
    ELSE IF system \notin {Pf2e, Dnd5e}
    THEN /\ task' = [task EXCEPT ![t] = Raises(tk, "UnsupportedSystem")]
         /\ UNCHANGED <<buildInProgress, invalidated>>
    ELSE /\ buildInProgress' = TRUE
         /\ invalidated' = FALSE
         /\ task' = [task EXCEPT ![t] =
                        Advance([tk EXCEPT !.force = force, !.snap = ActorPacksOf(packs),
                                           !.raced = \E u \in Tasks : Building(task[u]),
                                           !.i = 1, !.creatures = <<>>, !.fps = EmptyMap,
                                           !.errors = 0],
                                packs, now)]

\* the index build...Index hands to savePersistedIndex
BuiltIndex(tk, now) ==
    [metadata |-> [version |-> INDEX_VERSION, timestamp |-> now,
                   packFingerprints |-> tk.fps, totalCreatures |-> Len(tk.creatures),
                   gameSystem |-> system],
     creatures |-> tk.creatures]

(***************************************************************************)
(* The public operations, each from its call to its first await.           *)
(***************************************************************************)
CallGetEnhancedIndex(t) ==
    /\ calls > 0
    /\ Free(task[t])
    /\ task' = [task EXCEPT ![t] = [IdleTask EXCEPT !.op = "getEnhancedIndex", !.pc = "load"]]
    /\ calls' = calls - 1
    /\ UNCHANGED <<bridgeVars, system, settings, packs, store, buildInProgress, handler, events,
                   invalidated, servable>>

\* a rebuild request that removes the artifact before it builds
CallRebuildIndexDeleting(t) ==
    /\ calls > 0
    /\ Free(task[t])
    /\ \E now \in Times :
          buildEnhancedIndex(t, [IdleTask EXCEPT !.op = "rebuildIndex"], TRUE, now)
    /\ calls' = calls - 1
    /\ store' = NoFile
    /\ UNCHANGED <<bridgeVars, system, settings, packs, handler, events, servable>>

CallRebuildIndex(t) ==
    /\ calls > 0
    /\ Free(task[t])
    /\ \E now \in Times :
          buildEnhancedIndex(t, [IdleTask EXCEPT !.op = "rebuildIndex"], TRUE, now)
    /\ calls' = calls - 1
    /\ UNCHANGED <<bridgeVars, system, settings, packs, store, handler, events, servable>>

\* listCreaturesByCriteria(criteria) up to its first await
listCreaturesByCriteria(t, criteria) ==
    /\ calls > 0
    /\ Free(task[t])
    /\ LET tk == [IdleTask EXCEPT !.op = "listCreaturesByCriteria", !.criteria = criteria]
       IN  task' = [task EXCEPT ![t] = IF ~settings.enabled
                                       THEN EntersFallback(tk, "disabled")
                                       ELSE [tk EXCEPT !.pc = "load"]]
    /\ calls' = calls - 1
    /\ UNCHANGED <<bridgeVars, system, settings, packs, store, buildInProgress, handler, events,
                   invalidated, servable>>

CallListCreaturesByCriteria(t) == \E criteria \in Criterias : listCreaturesByCriteria(t, criteria)

(***************************************************************************)
(* The continuations, each from the resolution of an await to the next.    *)
(***************************************************************************)
\* a getEnhancedIndex to which a failing load is an error of its own
LoadResolvedRaising(t) ==
    /\ task[t].pc = "load"
    /\ \E ok \in BOOLEAN, now \in Times :
          LET present == ok /\ store # NoFile
              valid == present /\ isIndexValid(Deserialize(ContentOf(store)), packs, system, now)
              tk == [task[t] EXCEPT !.check = IF ~present THEN "absent"
                                              ELSE IF valid THEN "valid" ELSE "invalid",
                                    !.stale = present /\ servable]
          IN  IF valid
              THEN /\ task' = [task EXCEPT ![t] =
                                  Returns(tk, Deserialize(ContentOf(store)).creatures, "cache")]
                   /\ UNCHANGED <<buildInProgress, invalidated>>
              ELSE IF ~ok
              THEN /\ task' = [task EXCEPT ![t] = Raises(tk, "LoadFailed")]
                   /\ UNCHANGED <<buildInProgress, invalidated>>
              ELSE buildEnhancedIndex(t, tk, FALSE, now)
    /\ UNCHANGED <<bridgeVars, system, settings, packs, store, handler, calls, events, servable>>

\* loadPersistedIndex resolves (null when any of its steps fails), then the
\* rest of getEnhancedIndex
LoadResolved(t) ==
    /\ task[t].pc = "load"
    /\ \E ok \in BOOLEAN, now \in Times :
          LET present == ok /\ store # NoFile
              valid == present /\ isIndexValid(Deserialize(ContentOf(store)), packs, system, now)
              tk == [task[t] EXCEPT !.check = IF ~present THEN "absent"
                                              ELSE IF valid THEN "valid" ELSE "invalid",
                                    !.stale = present /\ servable]
          IN  IF valid
              THEN /\ task' = [task EXCEPT ![t] =
                                  Returns(tk, Deserialize(ContentOf(store)).creatures, "cache")]
                   /\ UNCHANGED <<buildInProgress, invalidated>>
              ELSE buildEnhancedIndex(t, tk, FALSE, now)
    /\ UNCHANGED <<bridgeVars, system, settings, packs, store, handler, calls, events, servable>>

\* pack.getIndex({}) of buildDnD5eIndex resolves or raises
GetIndexResolved(t) ==
    /\ task[t].pc = "getIndex"
    /\ \E ok \in BOOLEAN, now \in Times :
          LET id == task[t].snap[task[t].i]
          IN  IF ok /\ packs[id].exists
              THEN /\ packs' = [packs EXCEPT ![id].indexed = TRUE]
                   /\ task' = [task EXCEPT ![t].pc = "getDocuments",
                                           ![t].fps = MapSet(@, id,
                                               generatePackFingerprint(packs'[id], now))]
              ELSE /\ packs' = packs
                   /\ task' = [task EXCEPT ![t] =
                                  Advance([task[t] EXCEPT !.i = @ + 1], packs, now)]
    /\ UNCHANGED <<bridgeVars, system, settings, store, buildInProgress, handler, calls, events,
                   invalidated, servable>>

\* await this.generatePackFingerprint(pack) of buildPF2eIndex resumes
FingerprintResolved(t) ==
    /\ task[t].pc = "fingerprint"
    /\ task' = [task EXCEPT ![t].pc = "getDocuments",
                            ![t].fps = MapSet(@, task[t].snap[task[t].i], task[t].fp),
                            ![t].fp = NoFingerprint]
    /\ UNCHANGED <<bridgeVars, system, settings, packs, store, buildInProgress, handler, calls, events,
                   invalidated, servable>>

\* a builder that saves what it has after every pack
GetDocumentsResolvedSaving(t) ==
    /\ task[t].pc = "getDocuments"
    /\ \E ok \in BOOLEAN, now \in Times :
          LET pack == packs[task[t].snap[task[t].i]]
              r == ExtractDataFromPack(pack, IF ok /\ pack.exists THEN "loaded" ELSE LoadFailed,
                                       system)
          IN  /\ task' = [task EXCEPT ![t] =
                             Advance([task[t] EXCEPT !.creatures = @ \o r.creatures,
                                                     !.errors = @ + r.errors,
                                                     !.loaded = IF ok /\ pack.exists
                                                                THEN @ \cup {pack.id} ELSE @,
                                                     !.i = @ + 1],
                                     packs, now)]
              /\ store' = FileOf(Serialize(BuiltIndex(task'[t], now)))
    /\ UNCHANGED <<bridgeVars, system, settings, packs, buildInProgress, handler, calls, events,
                   invalidated, servable>>

\* pack.getDocuments() resolves or raises, then the documents are extracted
GetDocumentsResolved(t) ==
    /\ task[t].pc = "getDocuments"
    /\ \E ok \in BOOLEAN, now \in Times :
          LET pack == packs[task[t].snap[task[t].i]]
              r == ExtractDataFromPack(pack, IF ok /\ pack.exists THEN "loaded" ELSE LoadFailed,
                                       system)
          IN  task' = [task EXCEPT ![t] =
                          Advance([task[t] EXCEPT !.creatures = @ \o r.creatures,
                                                  !.errors = @ + r.errors,
                                                  !.loaded = IF ok /\ pack.exists
                                                             THEN @ \cup {pack.id} ELSE @,
                                                  !.i = @ + 1],
                                  packs, now)]
    /\ UNCHANGED <<bridgeVars, system, settings, packs, store, buildInProgress, handler, calls, events,
                   invalidated, servable>>

\* the artifact after savePersistedIndex: the upload replaces it, or fails and
\* leaves it as it is
savePersistedIndexTruncating(index, ok) ==
    IF ok THEN FileOf(Serialize(index)) ELSE NoFile

\* a write that adds the new profiles to those the artifact holds
savePersistedIndexMerging(index, ok) ==
    IF ~ok THEN store
    ELSE IF store = NoFile THEN FileOf(Serialize(index))
    ELSE FileOf(Serialize([index EXCEPT !.creatures = Deserialize(ContentOf(store)).creatures \o @]))

savePersistedIndex(index, ok) ==
    IF ok THEN FileOf(Serialize(index)) ELSE store

\* a builder that releases the latch on its way out of the try block only
UploadResolvedKeepingLatch(t) ==
    /\ task[t].pc = "upload"
    /\ \E ok \in BOOLEAN, now \in Times :
          /\ store' = savePersistedIndex(BuiltIndex(task[t], now), ok)
          /\ task' = [task EXCEPT ![t] = IF ok
                                          THEN Returns(task[t], task[t].creatures, "build")
                                          ELSE Raises(task[t], "UploadFailed")]
          /\ servable' = IF ok THEN FALSE ELSE servable
          /\ buildInProgress' = IF ok THEN FALSE ELSE buildInProgress
    /\ UNCHANGED <<bridgeVars, system, settings, packs, handler, calls, events, invalidated>>

\* the upload of savePersistedIndex resolves, or fails and the build raises
UploadResolved(t) ==
    /\ task[t].pc = "upload"
    /\ \E ok \in BOOLEAN, now \in Times :
          /\ store' = savePersistedIndex(BuiltIndex(task[t], now), ok)
          /\ task' = [task EXCEPT ![t] = IF ok
                                          THEN Returns(task[t], task[t].creatures, "build")
                                          ELSE Raises(task[t], "UploadFailed")]
          /\ servable' = IF ok THEN FALSE ELSE servable
    /\ buildInProgress' = FALSE
    /\ UNCHANGED <<bridgeVars, system, settings, packs, handler, calls, events, invalidated>>

\* the result of fallbackBasicCreatureSearch, its summary flagged as fallback
FallbackReturnsUnflagged(tk, basicResults) ==
    [tk EXCEPT !.pc = "returned", !.source = "fallback",
               !.result = Take(basicResults, LimitOf(tk.criteria))]

FallbackReturns(tk, basicResults) ==
    [tk EXCEPT !.pc = "returned", !.source = "fallback", !.fallback = TRUE,
               !.result = Take(basicResults, LimitOf(tk.criteria))]

\* searchCompendium(searchQuery, 'Actor') scans the packs; failing are the packs
\* whose getIndex raises
FallbackScan(t) ==
    /\ task[t].pc = "fallback"
    /\ \E failing \in SUBSET {id \in ActorPackIds : packs[id].exists /\ ~packs[id].indexed} :
          LET query == FallbackQuery(task[t].criteria)
              scan == SearchScan(query, packs, failing)
          IN  /\ packs' = [id \in PackIds |->
                              IF id \in scan.indexed THEN [packs[id] EXCEPT !.indexed = TRUE]
                              ELSE packs[id]]
              /\ task' = [task EXCEPT ![t] =
                             FallbackReturns(task[t], SearchResults(query, packs, failing))]
    /\ UNCHANGED <<bridgeVars, system, settings, store, buildInProgress, handler, calls, events,
                   invalidated, servable>>

\* searchCompendium(query, 'Actor') without filters, up to its first await
searchCompendium(t, query) ==
    /\ calls > 0
    /\ Free(task[t])
    /\ LET tk == [IdleTask EXCEPT !.op = "searchCompendium", !.query = query]
       IN  task' = [task EXCEPT ![t] =
                       IF QueryArgumentRejected(query) \/ SearchTermsOf(query.text) = <<>>
                       THEN [tk EXCEPT !.pc = "threw", !.cause = "ValidationError",
                                       !.error = "ValidationError"]
                       ELSE [tk EXCEPT !.pc = "scan"]]
    /\ calls' = calls - 1
    /\ UNCHANGED <<bridgeVars, system, settings, packs, store, buildInProgress, handler, events,
                   invalidated, servable>>

\* the values the model's callers pass for query
SearchArguments ==
    {NoQuery, NumberQuery,
     StringQuery(<<>>),
     StringQuery(<<" ">>),
     StringQuery(<<"k">>),
     StringQuery(<<" ", "a", " ">>),
     StringQuery(<<"k", "n">>),
     StringQuery(<<"g", "o">>),
     StringQuery(<<" ", "A", " ", " ", "w", " ">>),
     StringQuery(<<"a", "d", "u", "l", "t", " ", "w", "y", "r", "m">>)}

CallSearchCompendium(t) == \E query \in SearchArguments : searchCompendium(t, query)

\* the loop of searchCompendium over the packs, then the sort and the cut;
\* failing are the packs whose getIndex raises
SearchResolved(t) ==
    /\ task[t].pc = "scan"
    /\ \E failing \in SUBSET {id \in ActorPackIds : packs[id].exists /\ ~packs[id].indexed} :
          LET query == task[t].query.text
              scan == SearchScan(query, packs, failing)
          IN  /\ packs' = [id \in PackIds |->
                              IF id \in scan.indexed THEN [packs[id] EXCEPT !.indexed = TRUE]
                              ELSE packs[id]]
              /\ task' = [task EXCEPT ![t].pc = "returned",
                                      ![t].scanned = scan.indexed,
                                      ![t].result = SearchResults(query, packs, failing)]
    /\ UNCHANGED <<bridgeVars, system, settings, store, buildInProgress, handler, calls, events,
                   invalidated, servable>>

(***************************************************************************)
(* The hooks and invalidateIndex.                                          *)
(***************************************************************************)
\* document.pack && (document.type === 'npc' || document.type === 'character')
DocumentTrackedAnyKind(inPack, doc) == inPack

DocumentTracked(inPack, doc) == inPack /\ RecognizedKind(doc)

\* pack.metadata.type === 'Actor'
PackTracked(pack) == pack.type = "Actor"

\* if (!autoRebuild) return
InvalidatesOnEventAlways(autoRebuild) == TRUE

InvalidatesOnEvent(autoRebuild) == autoRebuild

\* a hook fires: invalidateIndex runs to its first await, or returns at once
Notify(tracked) ==
    /\ IF tracked /\ InvalidatesOnEvent(settings.autoRebuild)
       THEN \E h \in Handlers : /\ handler[h].pc = "idle"
                                /\ handler' = [handler EXCEPT ![h].pc = "browse"]
       ELSE handler' = handler
    /\ servable' = IF tracked
                   THEN store # NoFile /\ isIndexValid(Deserialize(ContentOf(store)), packs, system, 1)
                   ELSE servable

\* FilePicker.browse of invalidateIndex resolves or raises
BrowseResolved(h) ==
    /\ handler[h].pc = "browse"
    /\ \E ok \in BOOLEAN :
          IF ok /\ store # NoFile
          THEN /\ handler' = [handler EXCEPT ![h].pc = "delete"]
               /\ invalidated' = invalidated
          ELSE /\ handler' = [handler EXCEPT ![h].pc = "idle"]
               /\ invalidated' = IF ok THEN TRUE ELSE invalidated
    /\ UNCHANGED <<bridgeVars, system, settings, packs, store, buildInProgress, task, calls, events,
                   servable>>

\* fetch(filePath, {method: 'DELETE'}) settles; a failure is swallowed
DeleteResolved(h) ==
    /\ handler[h].pc = "delete"
    /\ \E ok \in BOOLEAN :
          IF ok
          THEN /\ store' = NoFile
               /\ invalidated' = TRUE
               /\ servable' = FALSE
          ELSE UNCHANGED <<store, invalidated, servable>>
    /\ handler' = [handler EXCEPT ![h].pc = "idle"]
    /\ UNCHANGED <<bridgeVars, system, settings, packs, buildInProgress, task, calls, events>>

(***************************************************************************)
(* The world changes, each firing its hook.                                *)
(***************************************************************************)
CreateDocument(id) ==
    /\ events > 0
    /\ packs[id].exists /\ packs[id].type = "Actor"
    /\ Len(packs[id].docs) < MaxDocs
    /\ \E doc \in DocCatalogue :
          /\ \A k \in 1..Len(packs[id].docs) : packs[id].docs[k]._id # doc._id
          /\ packs' = [packs EXCEPT ![id].docs = Append(@, doc)]
          /\ Notify(DocumentTracked(TRUE, doc))
    /\ events' = events - 1
    /\ UNCHANGED <<bridgeVars, system, settings, store, buildInProgress, task, calls, invalidated>>

\* an update in place: the document keeps its id and its kind
Updated(doc) == [doc EXCEPT !.crStr = <<>>, !.crNum = IF doc.crStr # <<>> THEN 3 ELSE doc.crNum + 1,
                            !.level = doc.level + 1]

UpdateDocument(id) ==
    /\ events > 0
    /\ packs[id].exists /\ packs[id].type = "Actor"
    /\ \E k \in 1..Len(packs[id].docs) :
          /\ packs[id].docs[k].crNum < 3
          /\ packs' = [packs EXCEPT ![id].docs[k] = Updated(@)]
          /\ Notify(DocumentTracked(TRUE, packs[id].docs[k]))
    /\ events' = events - 1
    /\ UNCHANGED <<bridgeVars, system, settings, store, buildInProgress, task, calls, invalidated>>

DeleteDocument(id) ==
    /\ events > 0
    /\ packs[id].exists /\ packs[id].type = "Actor"
    /\ \E k \in 1..Len(packs[id].docs) :
          /\ packs' = [packs EXCEPT ![id].docs =
                          SubSeq(@, 1, k - 1) \o SubSeq(@, k + 1, Len(@))]
          /\ Notify(DocumentTracked(TRUE, packs[id].docs[k]))
    /\ events' = events - 1
    /\ UNCHANGED <<bridgeVars, system, settings, store, buildInProgress, task, calls, invalidated>>

\* a document of the world, in no pack, is created, updated or deleted
WorldDocumentEvent ==
    /\ events > 0
    /\ \E doc \in DocCatalogue : Notify(DocumentTracked(FALSE, doc))
    /\ events' = events - 1
    /\ UNCHANGED <<bridgeVars, system, settings, packs, store, buildInProgress, task, calls, invalidated>>

CreateCompendium(id) ==
    /\ events > 0
    /\ ~packs[id].exists
    /\ packs' = [packs EXCEPT ![id] = [NewPack(id, packs[id].label) EXCEPT
                                          !.lastModified = packs[id].lastModified]]
    /\ Notify(PackTracked(packs'[id]))
    /\ events' = events - 1
    /\ UNCHANGED <<bridgeVars, system, settings, store, buildInProgress, task, calls, invalidated>>

DeleteCompendium(id) ==
    /\ events > 0
    /\ packs[id].exists
    /\ packs' = [packs EXCEPT ![id].exists = FALSE]
    /\ Notify(PackTracked(packs[id]))
    /\ events' = events - 1
    /\ UNCHANGED <<bridgeVars, system, settings, store, buildInProgress, task, calls, invalidated>>

\* the calls and their continuations, with the world unchanged
Next ==
    \/ \E t \in Tasks : CallGetEnhancedIndex(t)
    \/ \E t \in Tasks : CallRebuildIndex(t)
    \/ \E t \in Tasks : CallListCreaturesByCriteria(t)
    \/ \E t \in Tasks : LoadResolved(t)
    \/ \E t \in Tasks : GetIndexResolved(t)
    \/ \E t \in Tasks : FingerprintResolved(t)
    \/ \E t \in Tasks : GetDocumentsResolved(t)
    \/ \E t \in Tasks : UploadResolved(t)
    \/ \E t \in Tasks : FallbackScan(t)

Spec == Init /\ [][Next]_vars

\* one caller at a time, the world changing under it and the hooks firing
FirstTask == CHOOSE t \in Tasks : TRUE

NextEvents ==
    \/ CallGetEnhancedIndex(FirstTask)
    \/ CallRebuildIndex(FirstTask)
    \/ LoadResolved(FirstTask)
    \/ GetIndexResolved(FirstTask)
    \/ FingerprintResolved(FirstTask)
    \/ GetDocumentsResolved(FirstTask)
    \/ UploadResolved(FirstTask)
    \/ \E h \in Handlers : BrowseResolved(h)
    \/ \E h \in Handlers : DeleteResolved(h)
    \/ \E id \in PackIds : CreateDocument(id)
    \/ \E id \in PackIds : UpdateDocument(id)
    \/ \E id \in PackIds : DeleteDocument(id)
    \/ \E id \in PackIds : CreateCompendium(id)
    \/ \E id \in PackIds : DeleteCompendium(id)
    \/ WorldDocumentEvent

InitEvents ==
    /\ Start
    /\ store = NoFile
    /\ settings \in [enabled : {TRUE}, autoRebuild : BOOLEAN]
    /\ packs = InitialPacks
    /\ calls = MaxCalls
    /\ events = MaxEvents

SpecEvents == InitEvents /\ [][NextEvents]_vars

\* two callers racing while a document is deleted
NextRace ==
    \/ \E t \in Tasks : CallGetEnhancedIndex(t)
    \/ \E t \in Tasks : CallRebuildIndex(t)
    \/ \E t \in Tasks : LoadResolved(t)
    \/ \E t \in Tasks : GetIndexResolved(t)
    \/ \E t \in Tasks : FingerprintResolved(t)
    \/ \E t \in Tasks : GetDocumentsResolved(t)
    \/ \E t \in Tasks : UploadResolved(t)
    \/ \E h \in Handlers : BrowseResolved(h)
    \/ \E h \in Handlers : DeleteResolved(h)
    \/ \E id \in PackIds : DeleteDocument(id)

InitRace ==
    /\ Start
    /\ store = NoFile
    /\ settings \in [enabled : {TRUE}, autoRebuild : BOOLEAN]
    /\ packs = InitialPacks
    /\ calls = MaxCalls
    /\ events = RaceEvents

SpecRace == InitRace /\ [][NextRace]_vars

\* one caller at a time over every small world
DocLists(n) == {ds \in UNION {[1..k -> DocCatalogue] : k \in 0..n} :
                   \A j, k \in 1..Len(ds) : j # k => ds[j]._id # ds[k]._id}

InitBuild ==
    /\ Start
    /\ store = NoFile
    /\ settings = [enabled |-> TRUE, autoRebuild |-> TRUE]
    /\ \E da \in DocLists(MaxDocs + 1), db \in DocLists(MaxDocs), ia, ib, eb \in BOOLEAN :
          packs = [id \in PackIds |->
                      IF id = IdA THEN [NewPack(IdA, LabelM) EXCEPT !.docs = da, !.indexed = ia]
                      ELSE IF id = IdB
                      THEN [NewPack(IdB, LabelN) EXCEPT !.docs = db, !.indexed = ib,
                                                        !.exists = eb, !.lastModified = 1]
                      ELSE NewPack(IdItem, LabelN)]
    /\ calls = MaxCalls
    /\ events = 0

NextBuild ==
    \/ CallGetEnhancedIndex(FirstTask)
    \/ CallRebuildIndex(FirstTask)
    \/ LoadResolved(FirstTask)
    \/ GetIndexResolved(FirstTask)
    \/ FingerprintResolved(FirstTask)
    \/ GetDocumentsResolved(FirstTask)
    \/ UploadResolved(FirstTask)

SpecBuild == InitBuild /\ [][NextBuild]_vars

\* the validity check alone, over stored indexes and worlds of every kind
LabelOf(id) == IF id = IdA THEN LabelM ELSE LabelN

StoredTimes == 1..(MaxTime + 1)

\* the fingerprints an artifact may hold for a pack: any count, the checksum
\* of any count, any time
StoredFingerprints(id) ==
    IF id = IdItem
    THEN {generatePackFingerprint(NewPack(id, LabelOf(id)), 1)}
    ELSE {[generatePackFingerprint([NewPack(id, LabelOf(id)) EXCEPT
                                       !.indexed = TRUE,
                                       !.docs = [k \in 1..n2 |-> Goblin]], m)
              EXCEPT !.documentCount = n] :
             n \in 0..MaxDocs, n2 \in 0..MaxDocs, m \in StoredTimes}

StoredMaps ==
    {[order |-> SelectSeq(PackOrder, LAMBDA id : id \in S),
      at |-> [k \in 1..Cardinality(S) |->
                 f[SelectSeq(PackOrder, LAMBDA id : id \in S)[k]]]] :
        S \in SUBSET PackIds,
        f \in [PackIds -> UNION {StoredFingerprints(id) : id \in PackIds}]}

InitValid ==
    /\ Start
    /\ settings = [enabled |-> TRUE, autoRebuild |-> TRUE]
    /\ \E da \in {<<>>, <<Goblin>>}, ia, ib, eb, ei \in BOOLEAN :
          packs = [id \in PackIds |->
                      IF id = IdA THEN [NewPack(IdA, LabelM) EXCEPT !.docs = da, !.indexed = ia]
                      ELSE IF id = IdB
                      THEN [NewPack(IdB, LabelN) EXCEPT !.docs = <<Wyrm>>, !.indexed = ib,
                                                        !.exists = eb]
                      ELSE [NewPack(IdItem, LabelN) EXCEPT !.exists = ei]]
    /\ \E version \in {INDEX_VERSION, OLD_VERSION}, gameSystem \in {Dnd5e, Pf2e},
          fps \in StoredMaps :
          /\ \A j \in 1..Len(fps.order) : fps.at[j].packId = fps.order[j]
          /\ store = FileOf(Serialize([metadata |-> [version |-> version, timestamp |-> 1,
                                                     packFingerprints |-> fps,
                                                     totalCreatures |-> 0,
                                                     gameSystem |-> gameSystem],
                                        creatures |-> <<>>]))
    /\ calls = 1
    /\ events = 0

\* isIndexValid applied to the loaded artifact
CheckValidity(t) ==
    /\ calls > 0
    /\ task[t].pc = "idle"
    /\ \E now \in Times :
          task' = [task EXCEPT ![t] =
                      [IdleTask EXCEPT !.op = "isIndexValid", !.pc = "returned",
                                       !.check = IF isIndexValid(Deserialize(ContentOf(store)),
                                                                 packs, system, now)
                                                 THEN "valid" ELSE "invalid"]]
    /\ calls' = calls - 1
    /\ UNCHANGED <<bridgeVars, system, settings, packs, store, buildInProgress, handler, events,
                   invalidated, servable>>

NextValid == CheckValidity(FirstTask)

SpecValid == InitValid /\ [][NextValid]_vars

\* the structured query over a persisted index of every order
Drake == [Wyrm EXCEPT !._id = "d3", !.name = <<"a", "d", "u", "l", "t", " ", "d", "r", "a", "k", "e">>,
                      !.type = "npc", !.spells = FALSE, !.rarity = <<>>, !.hp = 30]
Twin == [Wyrm EXCEPT !._id = "d4", !.hp = 40, !.legendary = FALSE]
QueryCatalogue == {Goblin, Wyrm, Drake, Twin}

QueryDocLists == {ds \in UNION {[1..k -> QueryCatalogue] : k \in 0..(MaxDocs + 2)} :
                     \A j, k \in 1..Len(ds) : j # k => ds[j]._id # ds[k]._id}

\* criteria.challengeRating = { min, max } or criteria.level = { min, max }
Range(min, max) == [NoPower EXCEPT !.kind = "range", !.hasMin = TRUE, !.min = min,
                                   !.hasMax = TRUE, !.max = max]

\* a power criterion under both dialects: the level, and the challenge rating
\* in eighths
WithPower(p) == [NoCriteria EXCEPT !.level = p,
                                   !.challengeRating = [p EXCEPT !.value = PowerScale * @,
                                                                 !.min = PowerScale * @,
                                                                 !.max = PowerScale * @]]

QueryCriterias ==
    {NoCriteria,
     WithPower(ExactPower(2)),
     WithPower(Range(0, 2)),
     WithPower(Range(0, 1)),
     WithPower(Range(2, 2)),
     [WithPower(Range(0, 2)) EXCEPT !.limit = 1],
     [WithPower(Range(0, 1)) EXCEPT !.limit = 1],
     [NoCriteria EXCEPT !.limit = 2],
     [NoCriteria EXCEPT !.creatureType = <<"D", "r", "a", "g", "o", "n">>],
     [NoCriteria EXCEPT !.size = <<"L", "G">>],
     [NoCriteria EXCEPT !.hasSpells = "true"],
     [NoCriteria EXCEPT !.hasLegendaryActions = "false"],
     [NoCriteria EXCEPT !.traits = << <<"D", "R", "A", "G", "O", "N">> >>],
     [NoCriteria EXCEPT !.rarity = <<"r", "a", "r", "e">>],
     [WithPower(Range(2, 2)) EXCEPT !.creatureType = <<"d", "r", "a", "g", "o", "n">>,
                                    !.hasSpells = "true"]}

\* the world after a build has completed and written its index
InitQuery ==
    /\ Start
    /\ system # OtherSystem
    /\ settings = [enabled |-> TRUE, autoRebuild |-> FALSE]
    /\ \E ds \in QueryDocLists :
          packs = [id \in PackIds |->
                      IF id = IdA
                      THEN [NewPack(IdA, LabelM) EXCEPT !.docs = ds, !.indexed = TRUE]
                      ELSE IF id = IdB THEN [NewPack(IdB, LabelN) EXCEPT !.exists = FALSE]
                      ELSE NewPack(IdItem, LabelN)]
    /\ \E m \in StoredTimes :
          store = savePersistedIndex(
                     [metadata |-> [version |-> INDEX_VERSION, timestamp |-> m,
                                    packFingerprints |->
                                       MapSet(EmptyMap, IdA, generatePackFingerprint(packs[IdA], m)),
                                    totalCreatures |->
                                       Len(ExtractDataFromPack(packs[IdA], "loaded", system).creatures),
                                    gameSystem |-> system],
                      creatures |-> ExtractDataFromPack(packs[IdA], "loaded", system).creatures],
                     TRUE)
    /\ calls = QueryCalls
    /\ events = 0

QueryIndex(t) == \E criteria \in QueryCriterias : listCreaturesByCriteria(t, criteria)

NextQuery ==
    \/ \E t \in Tasks : QueryIndex(t)
    \/ \E t \in Tasks : LoadResolved(t)

SpecQuery == InitQuery /\ [][NextQuery]_vars

\* the free-text search over packs of every content
InitSearch ==
    /\ Start
    /\ system = Dnd5e
    /\ store = NoFile
    /\ settings = [enabled |-> TRUE, autoRebuild |-> FALSE]
    /\ \E ds \in QueryDocLists, indexed \in BOOLEAN :
          packs = [id \in PackIds |->
                      IF id = IdA
                      THEN [NewPack(IdA, LabelM) EXCEPT !.docs = ds, !.indexed = indexed]
                      ELSE IF id = IdB THEN [NewPack(IdB, LabelN) EXCEPT !.docs = <<Goblin>>]
                      ELSE NewPack(IdItem, LabelN)]
    /\ calls = SearchCalls
    /\ events = 0

NextSearch ==
    \/ \E t \in Tasks : CallSearchCompendium(t)
    \/ \E t \in Tasks : SearchResolved(t)

SpecSearch == InitSearch /\ [][NextSearch]_vars

\* the structured query over string criteria in another letter case and over
\* half-open power ranges, against profiles at the ends of the scale
Titan == [Wyrm EXCEPT !._id = "d5", !.name = <<"T", "i", "t", "a", "n">>, !.crNum = 30,
                      !.level = 26]
Vermin == [Goblin EXCEPT !._id = "d6", !.name = <<"V", "e", "r", "m", "i", "n">>,
                         !.crStr = <<>>, !.crNum = 0, !.level = -2]
FilterCatalogue == {Goblin, Wyrm, Titan, Vermin}

FilterDocLists == {ds \in UNION {[1..k -> FilterCatalogue] : k \in 0..(MaxDocs + 1)} :
                      \A j, k \in 1..Len(ds) : j # k => ds[j]._id # ds[k]._id}

\* criteria.challengeRating = { min } or criteria.level = { min }
MinOnly(min) == [NoPower EXCEPT !.kind = "range", !.hasMin = TRUE, !.min = min]

\* criteria.challengeRating = { max } or criteria.level = { max }
MaxOnly(max) == [NoPower EXCEPT !.kind = "range", !.hasMax = TRUE, !.max = max]

FilterCriterias ==
    {[NoCriteria EXCEPT !.creatureType = <<"D", "R", "A", "G", "O", "N">>],
     [NoCriteria EXCEPT !.size = <<"L", "a", "r", "g", "e">>],
     [NoCriteria EXCEPT !.rarity = <<"R", "a", "r", "e">>],
     [NoCriteria EXCEPT !.rarity = <<"r", "a", "r", "e">>],
     WithPower(MinOnly(1)),
     WithPower(MaxOnly(1))}

InitFilter ==
    /\ Start
    /\ system # OtherSystem
    /\ settings = [enabled |-> TRUE, autoRebuild |-> FALSE]
    /\ \E ds \in FilterDocLists :
          packs = [id \in PackIds |->
                      IF id = IdA
                      THEN [NewPack(IdA, LabelM) EXCEPT !.docs = ds, !.indexed = TRUE]
                      ELSE IF id = IdB THEN [NewPack(IdB, LabelN) EXCEPT !.exists = FALSE]
                      ELSE NewPack(IdItem, LabelN)]
    /\ \E m \in StoredTimes :
          store = savePersistedIndex(
                     [metadata |-> [version |-> INDEX_VERSION, timestamp |-> m,
                                    packFingerprints |->
                                       MapSet(EmptyMap, IdA, generatePackFingerprint(packs[IdA], m)),
                                    totalCreatures |->
                                       Len(ExtractDataFromPack(packs[IdA], "loaded", system).creatures),
                                    gameSystem |-> system],
                      creatures |-> ExtractDataFromPack(packs[IdA], "loaded", system).creatures],
                     TRUE)
    /\ calls = QueryCalls
    /\ events = 0

FilterIndex(t) == \E criteria \in FilterCriterias : listCreaturesByCriteria(t, criteria)

NextFilter ==
    \/ \E t \in Tasks : FilterIndex(t)
    \/ \E t \in Tasks : LoadResolved(t)

SpecFilter == InitFilter /\ [][NextFilter]_vars

\* the free-text search over packs with more entries than the scan keeps
SomeDocs == 60    \* entries of a pack that stays under the cap of the scan
ManyDocs == 101   \* entries of a pack that exceeds it

\* n entries made after doc, each with an id of its own
Crowd(doc, n) == [k \in 1..n |-> [doc EXCEPT !._id = ToString(k)]]

Imp == [Goblin EXCEPT !.name = <<"I", "m", "p">>]
Limp == [Goblin EXCEPT !.name = <<"L", "i", "m", "p">>]

CapsArguments ==
    {StringQuery(<<"i", "m", "p">>),
     StringQuery(<<"l", "i", "m", "p">>),
     StringQuery(<<"k", "n">>)}

InitCaps ==
    /\ Start
    /\ system = Dnd5e
    /\ store = NoFile
    /\ settings = [enabled |-> TRUE, autoRebuild |-> FALSE]
    /\ \E na \in {0, SomeDocs, ManyDocs}, ia, ib \in BOOLEAN :
          packs = [id \in PackIds |->
                      IF id = IdA
                      THEN [NewPack(IdA, LabelM) EXCEPT !.docs = Crowd(Imp, na), !.indexed = ia]
                      ELSE IF id = IdB
                      THEN [NewPack(IdB, LabelN) EXCEPT !.docs = Crowd(Limp, SomeDocs),
                                                        !.indexed = ib]
                      ELSE NewPack(IdItem, LabelN)]
    /\ calls = SearchCalls
    /\ events = 0

CapsSearch(t) == \E query \in CapsArguments : searchCompendium(t, query)

NextCaps ==
    \/ CapsSearch(FirstTask)
    \/ SearchResolved(FirstTask)

SpecCaps == InitCaps /\ [][NextCaps]_vars

\* the creature index at rest
IndexAtRest ==
    /\ Start
    /\ system = Dnd5e
    /\ store = NoFile
    /\ settings = [enabled |-> TRUE, autoRebuild |-> FALSE]
    /\ packs = InitialPacks
    /\ calls = 0
    /\ events = 0

\* two callers of ComfyUIManager.startService
NextStart ==
    \/ \E s \in Starters : CallStartService(s)
    \/ \E s \in Starters : CheckResolved(s)
    \/ \E s \in Starters : StatusResolved(s)
    \/ \E s \in Starters : SleepResolved(s)
    \/ \E s \in Starters : FinalResolved(s)

SpecStart == IndexAtRest /\ [][NextStart]_vars

\* backend requests over a connection that comes and goes
NextRequest ==
    \/ \E r \in Requests : SendBackendRequest(r)
    \/ \E r \in Requests : MessageEvent(r)
    \/ \E r \in Requests : TimeoutFires(r)
    \/ TransportChanged

SpecRequest == IndexAtRest /\ [][NextRequest]_vars

\* a request settles once, by its own response, the timeout or a failure to
\* send or to register, and nothing that comes later changes it
SettlesOnce ==
    /\ [](\A r \in Requests :
            /\ request[r].settles = (IF request[r].pc = "settled" THEN 1 ELSE 0)
            /\ request[r].pc = "settled"
                 => /\ request[r].by \in {"response", "error", "timeout", "send", "register",
                                          "disconnected"}
                    /\ request[r].outcome =
                           (IF request[r].by = "response" THEN "resolved" ELSE "rejected")
                    /\ request[r].by \in {"response", "error"} => request[r].answer = r
                    /\ ~request[r].timer)
    /\ [][\A r \in Requests :
            request[r].pc = "settled"
              => /\ request'[r].outcome = request[r].outcome
                 /\ request'[r].by = request[r].by
                 /\ request'[r].settles = request[r].settles]_vars

\* the handler of a settled request is registered nowhere
ListenerRemoved ==
    \A r \in Requests : request[r].pc = "settled" => request[r].listening = {}

\* C37: every backend request settles exactly once: by the first response
\* with its requestId (resolved, or rejected if it carries an error), by the
\* timeout, or by a failure to send or to register; a message with another
\* requestId never settles it, a response after the timeout changes nothing,
\* and the message listener is removed once the request has settled.
C37_SettlesOnceAndCleansUp == SettlesOnce /\ []ListenerRemoved

\* one RunPod job polled to its end
NextPoll ==
    \/ CallPollRunPodJob
    \/ WaitResolved
    \/ CheckStatusResolved
    \/ CompletionResolved

SpecPoll == IndexAtRest /\ [][NextPoll]_vars

\* what RunPod says of a job that is neither done nor lost
Ongoing == {"IN_QUEUE", "IN_PROGRESS", "UNHEARD_OF"}

\* C38: the polling of a RunPod job ends and handles completion at most once:
\* it stops at the first poll told COMPLETED, calling the completion handler
\* exactly once, at the first poll told FAILED, TIMED_OUT or CANCELLED, at the
\* first status check that fails, or after 60 polls; and the handler is never
\* called for a job that was not reported complete.
C38_PollingStops ==
    /\ [](/\ poller.pollCount <= MAX_POLLS
          /\ poller.answers \subseteq Ongoing
          /\ poller.handled = (IF poller.last = "COMPLETED" THEN 1 ELSE 0)
          /\ poller.last = "COMPLETED" => poller.pc \in {"completing", "done"}
          /\ poller.last \in {"FAILED", "TIMED_OUT", "CANCELLED"}
               => poller.pc = "done" /\ poller.stopped = "failed"
          /\ poller.last = NoAnswer => poller.pc = "done" /\ poller.stopped = "check failed"
          /\ poller.pollCount = MAX_POLLS => poller.pc \in {"checking", "completing", "done"}
          /\ poller.pc = "done"
               => \/ poller.stopped = "complete" /\ poller.last = "COMPLETED"
                  \/ poller.stopped = "failed" /\ checkStatus(poller.last).status = "failed"
                  \/ poller.stopped = "check failed" /\ poller.last = NoAnswer
                  \/ /\ poller.stopped = "timeout"
                     /\ poller.pollCount = MAX_POLLS
                     /\ poller.last \in Ongoing
                  \/ poller.stopped = "no client" /\ poller.pollCount = 0)
    /\ [][poller.pc = "done" => poller' = poller]_vars

\* the job was reported complete at the last poll allowed, after 59 polls
\* that found it going on, and was handled once
C38_Witness ==
    /\ poller.pc = "done"
    /\ poller.stopped = "complete"
    /\ poller.pollCount = MAX_POLLS
    /\ poller.answers = Ongoing
    /\ poller.handled = 1

\* clicks on the roll buttons by the user of this client, whoever it is
InitRoll ==
    /\ BridgeStart
    /\ user \in Users
    /\ system = Dnd5e
    /\ buildInProgress = FALSE
    /\ task = [t \in Tasks |-> IdleTask]
    /\ handler = [h \in Handlers |-> IdleHandler]
    /\ invalidated = FALSE
    /\ servable = FALSE
    /\ store = NoFile
    /\ settings = [enabled |-> TRUE, autoRebuild |-> FALSE]
    /\ packs = InitialPacks
    /\ calls = 0
    /\ events = 0

NextRoll ==
    \/ \E c \in Clicks : Click(c)
    \/ \E c \in Clicks : EvaluateResolved(c)
    \/ \E c \in Clicks : ToMessageResolved(c)
    \/ \E c \in Clicks : UpdateResolved(c)

SpecRoll == InitRoll /\ [][NextRoll]_vars

\* the handler of click c is between its first await and its end
InHandler(c) == click[c].pc \in {"evaluate", "message", "update"}

\* a click on a button whose id is being processed rolls nothing, and no two
\* clicks roll for one button id at a time
SecondClickRollsNothing ==
    /\ [](\A c, d \in Clicks :
            InHandler(c) /\ InHandler(d) /\ click[c].buttonId = click[d].buttonId => c = d)
    /\ [][\A c \in Clicks :
            /\ click[c].pc = "idle" /\ click'[c].pc # "idle"
            /\ click'[c].buttonId \in rollButtonProcessingStates
            => /\ click'[c].pc = "done"
               /\ click'[c].rolls = 0
               /\ rollButtonProcessingStates' = rollButtonProcessingStates]_vars

\* a button id is marked only while a click handler is at work on it
ProcessingCleared ==
    \A b \in rollButtonProcessingStates : \E c \in Clicks : InHandler(c) /\ click[c].buttonId = b

\* C39: while a click on a button id is being processed a second click on
\* that id executes no roll, and once a click handler has finished, on any
\* path (rolled, failed, permission denied, no button id), the processing
\* state of its button id is cleared: no id stays marked forever.
C39_ProcessingLatch == SecondClickRollsNothing /\ []ProcessingCleared

\* s calls startService in this step
StartCalled(s) == starter'[s].runs = starter[s].runs + 1

\* s's call of startService returns in this step
StartReturned(s) == starter[s].pc # "returned" /\ starter'[s].pc = "returned"

\* C36: startService is single-flight: a call made while a start is in
\* progress returns 'starting' at once, sends no start request and leaves the
\* manager alone; one call sends the start request at most once however many
\* polls it makes; and isStarting is true exactly while a call that was not
\* turned away is in flight, so it is false again after every outcome.
C36_SingleFlightStart ==
    /\ [](\A s \in Starters : starter[s].sent <= 1)
    /\ [](manager.isStarting <=> \E s \in Starters : StartInFlight(starter[s]))
    /\ [][\A s \in Starters :
            /\ StartCalled(s) /\ manager.isStarting
                 => /\ starter'[s].pc = "returned"
                    /\ starter'[s].status = "starting"
                    /\ starter'[s].sent = 0
                    /\ manager' = manager
            /\ StartReturned(s) /\ ~starter'[s].refused
                 => /\ ~manager'.isStarting
                    /\ starter'[s].status \in {"running", "already_running", "timeout",
                                                "backend_unavailable", "error"}]_vars

\* one call timed out after several polls having sent one start request, and
\* a call made meanwhile was turned away
C36_Witness ==
    /\ starter["s1"].status = "timeout"
    /\ starter["s1"].polls = MaxStatusPolls
    /\ starter["s1"].sent = 1
    /\ starter["s2"].refused
    /\ starter["s2"].pc = "returned"
    /\ ~manager.isStarting

\* every reader and every writer of the artifact side by side: the index
\* operations, the structured query, the free-text search and the hooks
InitFrame ==
    /\ Start
    /\ store = NoFile
    /\ settings \in [enabled : BOOLEAN, autoRebuild : BOOLEAN]
    /\ \E ds \in {<<>>, <<Goblin>>} : packs = [InitialPacks EXCEPT ![IdA].docs = ds]
    /\ calls = MaxCalls
    /\ events = RaceEvents

NextFrame ==
    \/ CallGetEnhancedIndex(FirstTask)
    \/ CallRebuildIndex(FirstTask)
    \/ CallListCreaturesByCriteria(FirstTask)
    \/ CallSearchCompendium(FirstTask)
    \/ LoadResolved(FirstTask)
    \/ GetIndexResolved(FirstTask)
    \/ FingerprintResolved(FirstTask)
    \/ GetDocumentsResolved(FirstTask)
    \/ UploadResolved(FirstTask)
    \/ FallbackScan(FirstTask)
    \/ SearchResolved(FirstTask)
    \/ \E h \in Handlers : BrowseResolved(h)
    \/ \E h \in Handlers : DeleteResolved(h)
    \/ \E id \in PackIds : CreateDocument(id)
    \/ \E id \in PackIds : UpdateDocument(id)
    \/ \E id \in PackIds : DeleteDocument(id)
    \/ \E id \in PackIds : CreateCompendium(id)
    \/ \E id \in PackIds : DeleteCompendium(id)

SpecFrame == InitFrame /\ [][NextFrame]_vars

(***************************************************************************)
(* Properties.                                                             *)
(***************************************************************************)
\* the index the artifact holds, as loadPersistedIndex yields it
StoredIndex == Deserialize(ContentOf(store))

\* the step in which getEnhancedIndex has loaded the artifact and checked it
LoadChecks(t) ==
    /\ task[t].pc = "load"
    /\ task'[t].pc # "load"
    /\ task'[t].check \in {"valid", "invalid"}

\* a tracked pack reports another document count or checksum than the stored one
FingerprintChanged(index, ps) ==
    \E id \in ActorPackIds :
       /\ ps[id].exists
       /\ MapHas(index.metadata.packFingerprints, id)
       /\ LET saved == MapGet(index.metadata.packFingerprints, id)
          IN  \/ saved.documentCount # IndexSize(ps[id])
              \/ saved.checksum # generatePackChecksum(ps[id])

\* the four conditions of validity
FourConditions(index, ps, currentSystem) ==
    /\ index.metadata.version = INDEX_VERSION
    /\ index.metadata.gameSystem = currentSystem
    /\ \A id \in ActorPackIds :
          ps[id].exists =>
             /\ MapHas(index.metadata.packFingerprints, id)
             /\ LET saved == MapGet(index.metadata.packFingerprints, id)
                IN  /\ saved.documentCount = IndexSize(ps[id])
                    /\ saved.checksum = generatePackChecksum(ps[id])
    /\ \A id \in PackIds : MapHas(index.metadata.packFingerprints, id) => ps[id].exists

\* the profiles of a list that stand for one document of one pack
ProfilesOf(list, packId, docId) ==
    {j \in 1..Len(list) : list[j].pack = packId /\ list[j].id = docId}

BuildReturned(tk) == tk.pc = "returned" /\ tk.source = "build"

\* C1: single-flight. Two builds started by non-forced requests are never in
\* flight at once: the second request fails with the build-in-progress error.
\* (rebuildIndex has no non-forced mode, and a forced build that finishes
\* releases the latch under a build still in flight.)
C1_SingleFlight ==
    \A a, b \in Tasks :
       (a # b /\ Building(task[a]) /\ Building(task[b])) => (task[a].force \/ task[b].force)

\* C2: listCreaturesByCriteria never raises for a well-formed criteria object,
\* whatever fails inside: it returns a result of the free-text fallback.
C2_QueryNeverRaises ==
    \A t \in Tasks : task[t].op = "listCreaturesByCriteria" => task[t].pc # "threw"

C4_ValidIffFourConditions ==
    \A t \in Tasks :
       task[t].op = "isIndexValid" =>
          (task[t].check = "valid" <=> FourConditions(StoredIndex, packs, system))

C4_Witness ==
    \E t \in Tasks :
       /\ task[t].op = "isIndexValid"
       /\ task[t].check = "valid"
       /\ \E id \in ActorPackIds :
             /\ packs[id].exists
             /\ MapGet(StoredIndex.metadata.packFingerprints, id).lastModified
                   # generatePackFingerprint(packs[id], 1).lastModified
       /\ MapHas(StoredIndex.metadata.packFingerprints, IdItem)

\* C5 (as the code has it): after a build that completes, every document of a
\* recognized kind in a tracked pack whose documents the build loaded has
\* exactly one profile of that pack and that id, and a pack the build could
\* not load has none.
C5_NoLossInLoadedPacks ==
    \A t \in Tasks :
       BuildReturned(task[t]) =>
          \A id \in ActorPackIds :
             packs[id].exists =>
                IF id \in task[t].loaded
                THEN \A k \in 1..Len(packs[id].docs) :
                        RecognizedKind(packs[id].docs[k]) =>
                           Cardinality(ProfilesOf(task[t].result, id, packs[id].docs[k]._id)) = 1
                ELSE \A j \in 1..Len(task[t].result) : task[t].result[j].pack # id

C5_Witness ==
    \E t \in Tasks :
       /\ BuildReturned(task[t])
       /\ \E id \in ActorPackIds :
             /\ packs[id].exists
             /\ id \notin task[t].loaded
             /\ \E k \in 1..Len(packs[id].docs) : RecognizedKind(packs[id].docs[k])
       /\ \E id \in task[t].loaded :
             \E k \in 1..Len(packs[id].docs) : packs[id].docs[k].throws

\* C5 as stated: after a build that completes, every document of a recognized
\* kind in every tracked pack has exactly one profile of its id in the list.
C5_NoLoss ==
    \A t \in Tasks :
       BuildReturned(task[t]) =>
          \A id \in ActorPackIds :
             packs[id].exists =>
                \A k \in 1..Len(packs[id].docs) :
                   RecognizedKind(packs[id].docs[k]) =>
                      Cardinality({j \in 1..Len(task[t].result) :
                                      task[t].result[j].id = packs[id].docs[k]._id}) = 1

\* C6: discard-on-failure. No step of a call changes the artifact but the
\* completing write of a build that returns: a build that ends with an
\* exception, a failing write included, leaves the artifact as it was.
C6_DiscardOnFailure ==
    [][\A t \in Tasks :
          (task'[t] # task[t] /\ ~(task[t].pc = "upload" /\ task'[t].cause = "none"))
             => store' = store]_vars

C6_Witness ==
    \E t \in Tasks : task[t].cause = "UploadFailed" /\ store # NoFile

\* C7: when the write at the end of a build fails, the build still returns
\* the profiles it built to its caller.
C7_ListReturnedOnWriteFailure ==
    \A t \in Tasks :
       (task[t].op # "listCreaturesByCriteria" /\ task[t].cause = "UploadFailed") =>
          BuildReturned(task[t])

\* C8: a result of listCreaturesByCriteria carries the fallback flag exactly
\* when the structured path was not used: the index is disabled or the
\* structured path raised; a result computed from the index never carries it.
C8_FallbackFlag ==
    \A t \in Tasks :
       (task[t].op = "listCreaturesByCriteria" /\ task[t].pc = "returned") =>
          /\ task[t].fallback <=> task[t].cause # "none"
          /\ task[t].fallback <=> task[t].source = "fallback"
          /\ task[t].source \in {"cache", "build"} => ~task[t].fallback

C8_Witness ==
    \E t \in Tasks :
       /\ task[t].op = "listCreaturesByCriteria"
       /\ task[t].pc = "returned"
       /\ task[t].fallback
       /\ task[t].cause = "BuildInProgress"

\* C9: with auto-rebuild enabled, once a tracked event has been handled and has
\* left the artifact absent, the next getEnhancedIndex is not served from the
\* artifact but rebuilds, in every interleaving with builds in flight.
C9_RebuildAfterInvalidation ==
    [][\A t \in Tasks : (invalidated /\ task[t].pc = "load") => task'[t].source # "cache"]_vars

Answered(t) ==
    /\ task[t].op = "listCreaturesByCriteria"
    /\ task[t].pc = "returned"
    /\ task[t].source = "cache"

\* the place of a profile in the persisted index
IndexPosition(profile) ==
    CHOOSE k \in 1..Len(StoredIndex.creatures) : StoredIndex.creatures[k] = profile

\* C11: sort order. A structured query returns its matches by power
\* ascending and, among equal power, by name ascending, whatever order the
\* profiles have in the index; profiles equal on both keys keep the order the
\* index has them in.
C11_SortedByPowerThenName ==
    \A t \in Tasks :
       Answered(t) =>
          LET r == task[t].result
          IN  \A i, j \in 1..Len(r) :
                 i < j =>
                    \/ PowerOf(r[i]) < PowerOf(r[j])
                    \/ /\ PowerOf(r[i]) = PowerOf(r[j])
                       /\ localeCompare(r[i].name, r[j].name) <= 0
                       /\ localeCompare(r[i].name, r[j].name) = 0 =>
                             IndexPosition(r[i]) < IndexPosition(r[j])

\* two profiles of equal power come back by name, against their order in the index
C11_Witness ==
    \E t \in Tasks :
       /\ Answered(t)
       /\ LET r == task[t].result
          IN  \E i, j \in 1..Len(r) :
                 /\ i < j
                 /\ PowerOf(r[i]) = PowerOf(r[j])
                 /\ localeCompare(r[i].name, r[j].name) < 0
                 /\ IndexPosition(r[i]) > IndexPosition(r[j])

\* a number meets a power criterion: the exact value, or within the bounds given
MeetsPower(n, c) ==
    CASE c.kind = "exact" -> n = c.value
      [] c.kind = "range" -> (c.hasMin => n >= c.min) /\ (c.hasMax => n <= c.max)
      [] OTHER -> TRUE

SameText(a, b) == toLowerCase(a) = toLowerCase(b)

\* the specified predicates a profile fails, by the fields its dialect carries
FailedPredicates(p, c) ==
    IF "level" \in DOMAIN p
    THEN {f \in {"power", "creatureType", "size", "hasSpells", "traits", "rarity"} :
             \/ f = "power" /\ ~MeetsPower(p.level, c.level)
             \/ f = "creatureType" /\ c.creatureType # <<>> /\ ~SameText(p.creatureType, c.creatureType)
             \/ f = "size" /\ c.size # <<>> /\ ~SameText(p.size, c.size)
             \/ f = "hasSpells" /\ c.hasSpells # "unset" /\ (c.hasSpells = "true") # p.hasSpells
             \/ f = "traits" /\ \E k \in 1..Len(c.traits) :
                                   \A j \in 1..Len(p.traits) : ~SameText(p.traits[j], c.traits[k])
             \/ f = "rarity" /\ c.rarity # <<>> /\ p.rarity # c.rarity}
    ELSE {f \in {"power", "creatureType", "size", "hasSpells", "hasLegendaryActions"} :
             \/ f = "power" /\ ~MeetsPower(p.challengeRating, c.challengeRating)
             \/ f = "creatureType" /\ c.creatureType # <<>> /\ ~SameText(p.creatureType, c.creatureType)
             \/ f = "size" /\ c.size # <<>> /\ ~SameText(p.size, c.size)
             \/ f = "hasSpells" /\ c.hasSpells # "unset" /\ (c.hasSpells = "true") # p.hasSpells
             \/ f = "hasLegendaryActions" /\ c.hasLegendaryActions # "unset"
                   /\ (c.hasLegendaryActions = "true") # p.hasLegendaryActions}

\* the profiles of the persisted index that fail no specified predicate
Matching(c) ==
    {k \in 1..Len(StoredIndex.creatures) : FailedPredicates(StoredIndex.creatures[k], c) = {}}

InList(list, p) == \E j \in 1..Len(list) : list[j] = p

WithinRange(narrow, wide) ==
    /\ narrow.kind = "range" /\ wide.kind = "range"
    /\ narrow.hasMin /\ narrow.hasMax /\ wide.hasMin /\ wide.hasMax
    /\ narrow.min = wide.min
    /\ narrow.min <= narrow.max
    /\ narrow.max <= wide.max

\* two criteria that differ in nothing but the upper bound of the power range
Narrows(narrow, wide) ==
    /\ WithinRange(narrow.challengeRating, wide.challengeRating)
    /\ WithinRange(narrow.level, wide.level)
    /\ [narrow EXCEPT !.challengeRating = NoPower, !.level = NoPower]
          = [wide EXCEPT !.challengeRating = NoPower, !.level = NoPower]

\* C13: range monotonicity. Against the same valid index, with the other
\* criteria and the limit fixed, the answer for the power range [a, b] holds
\* every profile of the answer for [a, c] whenever a <= c <= b.
C13_RangeMonotone ==
    \A t, u \in Tasks :
       (Answered(t) /\ Answered(u) /\ Narrows(task[u].criteria, task[t].criteria)) =>
          \A j \in 1..Len(task[u].result) : InList(task[t].result, task[u].result[j])

\* the narrower range is answered with some profiles, the wider one with more
C13_Witness ==
    \E t, u \in Tasks :
       /\ Answered(t) /\ Answered(u)
       /\ Narrows(task[u].criteria, task[t].criteria)
       /\ task[u].criteria.level.max < task[t].criteria.level.max
       /\ task[u].result # <<>>
       /\ Len(task[u].result) < Len(task[t].result)

\* getEnhancedIndex has read the artifact (the load did not fail) while the
\* world is as the stored fingerprints describe it
LoadsValidIndex(t) ==
    /\ task[t].pc = "load"
    /\ task'[t].pc # "load"
    /\ task'[t].check # "absent"
    /\ FourConditions(StoredIndex, packs, system)

\* C14: determinism. Two structured queries with the same criteria, answered
\* from the persisted index while it stays valid and unchanged, return the
\* same list in the same order; a query that reads a valid index is answered
\* from it in that step and neither starts a build nor writes the store.
C14_Deterministic ==
    /\ [](\A t, u \in Tasks :
            (Answered(t) /\ Answered(u) /\ task[t].criteria = task[u].criteria) =>
               task[t].result = task[u].result)
    /\ [][\A t \in Tasks :
            LoadsValidIndex(t) =>
               /\ task'[t].pc = "returned"
               /\ task'[t].source = "cache"
               /\ task'[t].result = StructuredResult(StoredIndex.creatures, task[t].criteria)
               /\ store' = store
               /\ buildInProgress' = buildInProgress]_vars

\* two callers were answered the same non-empty list of several profiles for
\* the same criteria, and the index is as it was
C14_Witness ==
    \E t, u \in Tasks :
       /\ t # u
       /\ Answered(t) /\ Answered(u)
       /\ task[t].criteria = task[u].criteria
       /\ Len(task[t].result) >= 2
       /\ task[t].result = task[u].result
       /\ ~buildInProgress
       /\ store # NoFile

\* p stands before q in the sorted list of matches
Before(p, q) ==
    \/ PowerOf(p) < PowerOf(q)
    \/ /\ PowerOf(p) = PowerOf(q)
       /\ \/ localeCompare(p.name, q.name) < 0
          \/ localeCompare(p.name, q.name) = 0 /\ IndexPosition(p) < IndexPosition(q)

\* C15: limit. A structured query returns at most limit profiles (500 when no
\* limit is given), and they are the first limit elements of the sorted list
\* of matches: as many as the limit allows, and every match left out stands
\* after every profile returned.
C15_FirstLimitOfSorted ==
    \A t \in Tasks :
       Answered(t) =>
          LET r == task[t].result
              c == task[t].criteria
              limit == IF c.limit = 0 THEN 500 ELSE c.limit
              matches == Matching(c)
          IN  /\ Len(r) <= limit
              /\ Len(r) = limit \/ Len(r) = Cardinality(matches)
              /\ \A j \in 1..Len(r) : InList(StoredIndex.creatures, r[j])
              /\ \A j \in 1..Len(r) : \A k \in matches :
                    ~InList(r, StoredIndex.creatures[k]) => Before(r[j], StoredIndex.creatures[k])

\* a query with a limit is answered with exactly that many profiles, and a
\* match that the index holds first is among those cut off
C15_Witness ==
    \E t \in Tasks :
       /\ Answered(t)
       /\ task[t].criteria.limit > 0
       /\ Len(task[t].result) = task[t].criteria.limit
       /\ Cardinality(Matching(task[t].criteria)) > task[t].criteria.limit
       /\ ~InList(task[t].result, StoredIndex.creatures[1])
       /\ 1 \in Matching(task[t].criteria)

\* the characters of a text that are not whitespace
RECURSIVE NonWhitespace(_)
NonWhitespace(text) ==
    IF text = <<>> THEN 0
    ELSE (IF Head(text) = " " THEN 0 ELSE 1) + NonWhitespace(Tail(text))

\* a query that is missing, not a string, or of fewer than two characters
\* that are not whitespace
Malformed(arg) == arg.kind # "string" \/ NonWhitespace(arg.text) < 2

Searches(t) == task[t].op = "searchCompendium"

\* C16: validation. A free-text search whose query is missing, not a string
\* or of fewer than 2 non-whitespace characters ends with a validation error
\* and no results, and has read the index records of no pack: the call that
\* rejects it leaves every pack as it was.
C16_MalformedRejected ==
    /\ [](\A t \in Tasks :
            (Searches(t) /\ Malformed(task[t].query)) =>
               /\ task[t].pc = "threw"
               /\ task[t].error = "ValidationError"
               /\ task[t].result = <<>>
               /\ task[t].scanned = {})
    /\ [][\A t \in Tasks :
            (task'[t] # task[t] /\ Searches(t)' /\ Malformed(task'[t].query)) =>
               packs' = packs]_vars

\* a query of three characters, one of them not whitespace, was rejected
\* while another caller's search found a document
C16_Witness ==
    \E t, u \in Tasks :
       /\ Searches(t)
       /\ Len(task[t].query.text) >= 2
       /\ Malformed(task[t].query)
       /\ task[t].pc = "threw"
       /\ Searches(u)
       /\ task[u].pc = "returned"
       /\ task[u].result # <<>>

Kn == StringQuery(<<"k", "n">>)

\* C17: the query "kn". A free-text search called with "kn" passes the
\* validation, its two characters being the minimum, and goes on to scan the
\* packs; it is a query of one character, such as "k", that ends with a
\* validation error.
C17_KnAccepted ==
    \A t \in Tasks :
       Searches(t) =>
          /\ task[t].query = Kn =>
                task[t].pc \in {"scan", "returned"} /\ task[t].error = "none"
          /\ task[t].query = StringQuery(<<"k">>) =>
                task[t].pc = "threw" /\ task[t].error = "ValidationError"

\* a search for "kn" has returned after reading the index records of a pack
C17_Witness ==
    \E t \in Tasks :
       /\ Searches(t)
       /\ task[t].query = Kn
       /\ task[t].pc = "returned"
       /\ task[t].scanned # {}

\* the statement that a search called with "kn" raises a validation error
C17_KnRaises ==
    \A t \in Tasks :
       (Searches(t) /\ task[t].query = Kn) =>
          task[t].pc = "threw" /\ task[t].error = "ValidationError"

\* what loadPersistedIndex yields agrees with the index that was saved
SameIndex(loaded, saved) ==
    /\ loaded.creatures = saved.creatures
    /\ loaded.metadata.gameSystem = saved.metadata.gameSystem
    /\ loaded.metadata.version = saved.metadata.version
    /\ loaded.metadata.packFingerprints.order = saved.metadata.packFingerprints.order
    /\ \A id \in PackIds :
          MapHas(saved.metadata.packFingerprints, id) =>
             /\ MapHas(loaded.metadata.packFingerprints, id)
             /\ MapGet(loaded.metadata.packFingerprints, id)
                   = MapGet(saved.metadata.packFingerprints, id)

\* C18: round trip. When a build has written its index, loading the artifact
\* yields the profile list, the dialect, the version and the fingerprint map
\* (the same keys with the same values) of the index that was saved.
C18_RoundTrip ==
    [][(task[FirstTask].pc = "upload" /\ task'[FirstTask].pc = "returned") =>
          /\ store' # NoFile
          /\ \E now \in Times :
                SameIndex(Deserialize(ContentOf(store')), BuiltIndex(task[FirstTask], now))]_vars

\* a written artifact holds profiles and the fingerprints of two packs
C18_Witness ==
    /\ BuildReturned(task[FirstTask])
    /\ store # NoFile
    /\ StoredIndex.creatures # <<>>
    /\ Len(StoredIndex.metadata.packFingerprints.order) = 2
    /\ StoredIndex.creatures = task[FirstTask].result

NoBuildInFlight == \A u \in Tasks : ~Building(task[u])

\* getEnhancedIndex has found no index it can serve and asks for a build
RequestsBuild(t) ==
    /\ task[t].pc = "load"
    /\ task'[t].pc # "load"
    /\ task'[t].check \in {"absent", "invalid"}

\* C19: a failed build is not terminal. The step in which a build ends with
\* an exception releases the latch; the latch is never left set when no build
\* is in flight (a request refused for an unsupported system never set it);
\* so a non-forced build request made when no build is in flight is not
\* refused as a build in progress, and under a supported system it starts.
C19_FailedBuildReleasesLatch ==
    /\ [][\A t \in Tasks :
            (Building(task[t]) /\ task'[t].pc \in {"threw", "fallback"}) =>
               ~buildInProgress']_vars
    /\ [](NoBuildInFlight => ~buildInProgress)
    /\ [][\A t \in Tasks :
            (RequestsBuild(t) /\ NoBuildInFlight) =>
               /\ task'[t].cause # "BuildInProgress"
               /\ system \in {Dnd5e, Pf2e} => Building(task'[t])]_vars

\* of two requests in all, neither forced, one ended with the write failure
\* of its build and the other's build is in flight
C19_Witness ==
    \E t, u \in Tasks :
       /\ t # u
       /\ calls = MaxCalls - 2
       /\ task[t].cause = "UploadFailed"
       /\ task[t].op # "rebuildIndex"
       /\ task[u].op # "rebuildIndex"
       /\ Building(task[u])
       /\ buildInProgress

\* loadPersistedIndex has yielded null: the listing, the fetch or the parse
\* failed, or there is no file
LoadFails(t) ==
    /\ task[t].pc = "load"
    /\ task'[t].pc # "load"
    /\ task'[t].check = "absent"

\* C20: load failures. A load of the persisted index that fails leaves the
\* store as it was and counts as no index: getEnhancedIndex serves nothing
\* from the artifact and asks for a non-forced build, which starts when the
\* latch is clear and the system is supported; the only errors the call can
\* end with are the refusals of that request.
C20_LoadFailureRequestsBuild ==
    [][\A t \in Tasks :
          LoadFails(t) =>
             /\ store' = store
             /\ task'[t].source # "cache"
             /\ Building(task'[t]) \/ task'[t].cause \in {"BuildInProgress", "UnsupportedSystem"}
             /\ (~buildInProgress /\ system \in {Dnd5e, Pf2e}) =>
                   Building(task'[t]) /\ buildInProgress']_vars

\* the artifact is there, a load of it failed, and the caller's build is in flight
C20_Witness ==
    \E t \in Tasks :
       /\ task[t].op = "getEnhancedIndex"
       /\ task[t].check = "absent"
       /\ Building(task[t])
       /\ store # NoFile

\* the statement that under a supported system a failed load always proceeds
\* to a rebuild
C20_AlwaysRebuilds ==
    [][\A t \in Tasks :
          (LoadFails(t) /\ system \in {Dnd5e, Pf2e}) => Building(task'[t])]_vars

\* C21: latch invariant. The build-in-progress flag is true whenever a build,
\* forced or not, is in flight, so that a non-forced request is refused while
\* any build is in flight.
C21_LatchHeldWhileBuilding ==
    (\E t \in Tasks : Building(task[t])) => buildInProgress

\* C22: forced race. Under a supported system a forced build request is never
\* refused, whatever is in flight; every change of the artifact is the write
\* of one build at its end and leaves exactly the index that build assembled,
\* its profiles with its fingerprints, so that after two racing builds the
\* artifact is the index of the one that wrote last.
C22_LastWriterWins ==
    /\ [][\A t \in Tasks :
            (Free(task[t]) /\ task'[t] # task[t] /\ task'[t].op = "rebuildIndex"
                /\ system \in {Dnd5e, Pf2e}) =>
               Building(task'[t]) /\ task'[t].force]_vars
    /\ [][store' # store =>
            \E t \in Tasks :
               /\ task[t].pc = "upload"
               /\ ~Building(task'[t])
               /\ \E now \in Times :
                     Deserialize(ContentOf(store')) = BuiltIndex(task[t], now)]_vars

\* a forced build that started while another build was in flight has
\* returned, so has the other, their lists differ, and the artifact holds one
\* of the two lists
C22_Witness ==
    \E t, u \in Tasks :
       /\ t # u
       /\ task[t].raced /\ task[t].force
       /\ BuildReturned(task[t]) /\ BuildReturned(task[u])
       /\ task[t].result # task[u].result
       /\ store # NoFile
       /\ StoredIndex.creatures \in {task[t].result, task[u].result}

\* a structured query has found no valid index and asks for a build
QueryRequestsBuild(t) ==
    /\ task[t].op = "listCreaturesByCriteria"
    /\ RequestsBuild(t)

\* C23: query during a build. A structured query that finds no valid index
\* while a build is in flight starts no second build: its request is refused
\* with the build-in-progress error and the query goes on to the fallback
\* search, whose results it returns instead of failing.
C23_QueryDuringBuildFallsBack ==
    [][\A t \in Tasks :
          (QueryRequestsBuild(t) /\ \E u \in Tasks : Building(task[u])) =>
             /\ ~Building(task'[t])
             /\ task'[t].cause = "BuildInProgress"
             /\ task'[t].pc = "fallback"]_vars

\* C24: building leads to valid. With no pack added, removed or changed
\* since the build that wrote the artifact, a getEnhancedIndex that reads the
\* artifact finds it valid and serves it without building, under both
\* dialects and also when a pack failed to load during that build.
C24_BuiltIndexIsValid ==
    [][(task[FirstTask].pc = "load" /\ task'[FirstTask].pc # "load"
           /\ task'[FirstTask].check # "absent") =>
          /\ task'[FirstTask].check = "valid"
          /\ task'[FirstTask].pc = "returned"
          /\ task'[FirstTask].source = "cache"]_vars

\* the profile recorded for a document whose extraction threw
IsPlaceholder(p) ==
    /\ p.hitPoints = 1
    /\ p.armorClass = 10
    /\ PowerOf(p) = 0
    /\ p.creatureType = Unknown
    /\ p.size = Medium
    /\ ~p.hasSpells
    /\ p.description = ExtractionFailed

RECURSIVE CountThrowing(_)
CountThrowing(docs) ==
    IF docs = <<>> THEN 0
    ELSE (IF RecognizedKind(Head(docs)) /\ Head(docs).throws THEN 1 ELSE 0)
         + CountThrowing(Tail(docs))

RECURSIVE ThrowingIn(_, _)
ThrowingIn(ids, ps) ==
    IF ids = {} THEN 0
    ELSE LET id == CHOOSE x \in ids : TRUE
         IN  CountThrowing(ps[id].docs) + ThrowingIn(ids \ {id}, ps)

\* C25: placeholder. A document whose extraction throws does not abort the
\* build: in the list a completed build returns, every pack whose documents
\* were loaded has one profile for each of its documents of a recognized
\* kind, in order, the profile of a throwing document being the placeholder
\* (hitPoints 1, armorClass 10, default values, the failure description) and
\* the others real; each throwing document adds one to the error count.
C25_PlaceholderOnThrow ==
    BuildReturned(task[FirstTask]) =>
       LET tk == task[FirstTask]
       IN  /\ \A id \in tk.loaded :
                 LET recognized == SelectSeq(packs[id].docs, RecognizedKind)
                     profiles == SelectSeq(tk.result, LAMBDA p : p.pack = id)
                 IN  /\ Len(profiles) = Len(recognized)
                     /\ \A k \in 1..Len(recognized) :
                           /\ profiles[k].id = recognized[k]._id
                           /\ IsPlaceholder(profiles[k]) <=> recognized[k].throws
           /\ tk.errors >= ThrowingIn(tk.loaded, packs)
           /\ tk.loaded = {id \in ActorPackIds : packs[id].exists} =>
                 tk.errors = ThrowingIn(tk.loaded, packs)

\* a pack of two documents whose first throws: the build returned two
\* profiles for it, the placeholder and then a real one, and counted one error
C25_Witness ==
    /\ BuildReturned(task[FirstTask])
    /\ IdA \in task[FirstTask].loaded
    /\ Len(packs[IdA].docs) = 2
    /\ packs[IdA].docs[1].throws
    /\ RecognizedKind(packs[IdA].docs[2])
    /\ Len(SelectSeq(task[FirstTask].result, LAMBDA p : p.pack = IdA)) = 2
    /\ IsPlaceholder(task[FirstTask].result[1])
    /\ ~IsPlaceholder(task[FirstTask].result[2])
    /\ task[FirstTask].errors = 1

\* the tracked packs a completed build could not load
FailedPacks(tk) == {id \in ActorPackIds : packs[id].exists} \ tk.loaded

\* C26: per-pack failure. In a completed build, under either dialect, a pack
\* whose loading or enumeration threw contributes no profile and adds one to
\* the build's error count, and the other packs are processed all the same.
C26_FailedPackCounted ==
    BuildReturned(task[FirstTask]) =>
       LET tk == task[FirstTask]
       IN  /\ \A j \in 1..Len(tk.result) : tk.result[j].pack \notin FailedPacks(tk)
           /\ tk.errors = ThrowingIn(tk.loaded, packs) + Cardinality(FailedPacks(tk))

\* C27: per-pack ordering. Under both dialects a build loads a pack's index
\* listing before it computes the pack's fingerprint, so the fingerprint the
\* artifact stores for a pack carries the number of documents the pack
\* really holds at build time.
C27_FingerprintCountsDocuments ==
    store # NoFile =>
       \A id \in PackIds :
          MapHas(StoredIndex.metadata.packFingerprints, id) =>
             MapGet(StoredIndex.metadata.packFingerprints, id).documentCount
                = Len(packs[id].docs)

\* C28: wholesale replacement. Whenever the artifact gets new content, it is
\* by the write of a build that has gone through all the packs it set out
\* with; the build ends with that step, so it writes at most once; and the
\* new content is the whole index of that build: all its profiles, their
\* number, and its complete fingerprint map, nothing kept from the old content.
C28_WholesaleWrite ==
    [][(store' # store /\ store' # NoFile) =>
          \E t \in Tasks :
             /\ task[t].pc = "upload"
             /\ task[t].i > Len(task[t].snap)
             /\ ~Building(task'[t])
             /\ Deserialize(ContentOf(store')).creatures = task[t].creatures
             /\ Deserialize(ContentOf(store')).metadata.totalCreatures = Len(task[t].creatures)
             /\ Deserialize(ContentOf(store')).metadata.packFingerprints = task[t].fps
             /\ \A id \in PackIds :
                   MapHas(task[t].fps, id) => InSeq(id, task[t].snap)]_vars

\* a getEnhancedIndex that read an artifact and found it invalid has built
\* and written anew: the artifact holds the list it returned and the
\* fingerprint of the pack
C28_Witness ==
    /\ BuildReturned(task[FirstTask])
    /\ task[FirstTask].op = "getEnhancedIndex"
    /\ task[FirstTask].check = "invalid"
    /\ store # NoFile
    /\ task[FirstTask].result # <<>>
    /\ StoredIndex.creatures = task[FirstTask].result
    /\ MapHas(StoredIndex.metadata.packFingerprints, IdA)

ForcedRequest(t) ==
    /\ Free(task[t])
    /\ task'[t] # task[t]
    /\ task'[t].op = "rebuildIndex"

\* C30: unsupported game system. When the system is neither dnd5e nor pf2e,
\* every build request, forced or not, fails with the unsupported-system
\* error leaving the latch and the artifact as they were and starting no
\* build, and a structured query whose build request failed so goes on to
\* the fallback search and returns its results flagged as fallback instead
\* of raising.
C30_UnsupportedSystemFailsCleanly ==
    [][system \notin {Dnd5e, Pf2e} =>
          \A t \in Tasks :
             /\ (ForcedRequest(t) \/ RequestsBuild(t)) =>
                   /\ buildInProgress' = buildInProgress
                   /\ store' = store
                   /\ ~Building(task'[t])
                   /\ task'[t].cause = "UnsupportedSystem"
                   /\ task'[t].pc = IF task'[t].op = "listCreaturesByCriteria"
                                    THEN "fallback" ELSE "threw"
             /\ (task[t].pc = "fallback" /\ task'[t].pc # "fallback") =>
                   /\ task'[t].pc = "returned"
                   /\ task'[t].fallback]_vars

\* the documents of a pack, as a set
DocsOf(pack) == {pack.docs[k] : k \in 1..Len(pack.docs)}

\* the step is a change of the world that the hooks track: a document of a
\* recognized kind enters, leaves or changes inside a pack, or an Actor pack
\* comes or goes
TrackedChange ==
    \E id \in PackIds :
       \/ /\ packs'[id].exists # packs[id].exists
          /\ packs[id].type = "Actor"
       \/ /\ packs'[id].exists = packs[id].exists
          /\ \E doc \in (DocsOf(packs[id]) \cup DocsOf(packs'[id])) \
                          (DocsOf(packs[id]) \cap DocsOf(packs'[id])) :
                RecognizedKind(doc)

\* the step is a change of the world that fires a hook for nothing tracked
UntrackedEvent == events' = events - 1 /\ ~TrackedChange

\* C31: the listener reacts only to tracked events. An event for a document
\* in no pack or of a kind other than npc and character, and the creation or
\* deletion of a pack whose type is not Actor, start no invalidation and
\* leave the persisted artifact as it was, whatever the auto-rebuild flag;
\* and an invalidation is started by a tracked event only.
C31_UntrackedEventsIgnored ==
    /\ [][UntrackedEvent => (handler' = handler /\ store' = store)]_vars
    /\ [][(\E h \in Handlers : handler[h].pc = "idle" /\ handler'[h].pc = "browse") =>
             (events' = events - 1 /\ TrackedChange /\ settings.autoRebuild)]_vars

\* with the flag on and an artifact stored, the pack of items has been
\* deleted and a document of the world has changed: no invalidation runs and
\* the artifact is still there
C31_Witness ==
    /\ settings.autoRebuild
    /\ ~packs[IdItem].exists
    /\ packs[IdA] = InitialPacks[IdA] /\ packs[IdB] = InitialPacks[IdB]
    /\ events = MaxEvents - 2
    /\ store # NoFile
    /\ \A h \in Handlers : handler[h].pc = "idle"

\* the criteria specify string fields only
StringCriteriaOnly(c) ==
    [c EXCEPT !.creatureType = <<>>, !.size = <<>>, !.rarity = <<>>] = NoCriteria

\* the profile equals the criteria on every string field given, letter case
\* aside; rarity is a field of the second dialect only
SameOnStrings(p, c) ==
    /\ c.creatureType # <<>> => SameText(p.creatureType, c.creatureType)
    /\ c.size # <<>> => SameText(p.size, c.size)
    /\ (c.rarity # <<>> /\ IsPF2e(p)) => SameText(p.rarity, c.rarity)

\* C32: case-insensitivity. Every string-field criterion of the structured
\* query (creature type, size, and rarity under the second dialect) is
\* compared without regard to letter case: a profile of the index whose
\* fields differ from the requested values in letter case only is in the
\* answer.
C32_CaseInsensitive ==
    \A t \in Tasks :
       (Answered(t) /\ StringCriteriaOnly(task[t].criteria)) =>
          \A k \in 1..Len(StoredIndex.creatures) :
             SameOnStrings(StoredIndex.creatures[k], task[t].criteria) =>
                InList(task[t].result, StoredIndex.creatures[k])

\* a power range with one bound only
HalfOpen(c) == c.kind = "range" /\ c.hasMin # c.hasMax

\* the criteria specify a half-open power range and nothing else
HalfOpenOnly(c) ==
    /\ HalfOpen(c.level) /\ HalfOpen(c.challengeRating)
    /\ [c EXCEPT !.level = NoPower, !.challengeRating = NoPower] = NoCriteria

\* the power criterion that applies to the profile, by its dialect
PowerCriterion(p, c) == IF IsPF2e(p) THEN c.level ELSE c.challengeRating

\* C33: half-open power ranges. Under both dialects a range with only min
\* admits every profile whose power is at least min, with no upper bound,
\* and a range with only max admits every profile whose power is at most
\* max, with no lower bound.
C33_HalfOpenUnbounded ==
    \A t \in Tasks :
       (Answered(t) /\ HalfOpenOnly(task[t].criteria)) =>
          \A k \in 1..Len(StoredIndex.creatures) :
             LET p == StoredIndex.creatures[k]
                 c == PowerCriterion(p, task[t].criteria)
             IN  ((c.hasMin => PowerOf(p) >= c.min) /\ (c.hasMax => PowerOf(p) <= c.max))
                    => InList(task[t].result, p)

\* the whitespace-separated terms of a text, as the places where they start
\* and end: its longest stretches without a blank
WordsOf(text) ==
    {w \in {<<i, j>> \in (1..Len(text)) \X (1..Len(text)) : i <= j} :
        /\ \A k \in w[1]..w[2] : text[k] # " "
        /\ w[1] = 1 \/ text[w[1] - 1] = " "
        /\ w[2] = Len(text) \/ text[w[2] + 1] = " "}

\* name holds term somewhere, letter case aside
Contains(name, term) ==
    \E k \in 1..(Len(name) - Len(term) + 1) :
       toLowerCase(SubSeq(name, k, k + Len(term) - 1)) = toLowerCase(term)

MayFail == {id \in ActorPackIds : packs[id].exists /\ ~packs[id].indexed}

\* the results of a list that come from a pack
FromPack(results, id) == SelectSeq(results, LAMBDA r : r.pack = id)

\* the entries of the Actor packs whose names hold every term of the query
Hits(text) ==
    {<<id, k>> \in ActorPackIds \X (1..ManyDocs) :
        /\ packs[id].exists
        /\ k <= Len(packs[id].docs)
        /\ \A w \in WordsOf(text) :
              Contains(packs[id].docs[k].name, SubSeq(text, w[1], w[2]))}

====
